---- MODULE Spec2Model ----
(***************************************************************************)
(* Predictive-alerting pipeline of CircleSfera-API: the Alert Store        *)
(* (alertNotifier.ts), the Batcher (alertProcessor.ts), the Pattern Miner  *)
(* (alertPatternAnalyzer), the Prediction Scheduler (PredictionNotifier)   *)
(* and the Accuracy Tracker (predictionAccuracy).                          *)
(*                                                                         *)
(* Units.  Times are whole seconds since process start (the source uses    *)
(* milliseconds; every constant below is the source constant / 1000).      *)
(* A confidence is in hundredths (0.7 is 70).  An accuracy is in units of  *)
(* 1/1500, the denominator TIME_TOLERANCE - fiveMinutes of                 *)
(* calculateAccuracy, so that it is exact for whole-second times.          *)
(* Strings built by template literals are sequences of their tokens:       *)
(* `pattern-${a}-${b}` is <<"pattern", a, b>>.                             *)
(***************************************************************************)
EXTENDS Integers, Sequences, FiniteSets, TLC

\* ------------------------------------------------------------------ bounds
\* records passed to the Alert Store in the history specification
MaxRecords == 1003
\* accuracy records held in the tracker specification
MaxMetrics == 2
\* archived batch files and mining cycles in the miner specification
MaxArchived == 2
MaxCycles == 4
\* the batcher specification: alerts per batch, the time up to which alerts
\* arrive, the time up to which a file write may fail and the time up to
\* which the clock runs
MaxBatchAlerts == 1
MaxAlertTime == 300
MaxFailTime == 600
MaxBatcherTime == 173100
\* the prediction specification: real alerts recorded and the time up to
\* which the clock runs
MaxRealAlerts == 1
MaxPredictTime == 12900
\* the scenario specification: the time of day of the first alert and the
\* time up to which the clock runs
ScenarioStart == 120
MaxScenarioTime == 198000
\* the channels specification: alerts recorded
MaxChannelRecords == 2
\* the verification specification: accuracy records and alerts recorded
MaxVerifyRecords == 2
MaxVerifyAlerts == 2
\* the accuracy specification: accuracy records held
MaxAccuracyRecords == 2
\* the malformed-archive specification: archive files and mining cycles
MaxMalformedFiles == 3
MaxMalformedCycles == 2
MaxCorrelateAlerts == 3
MaxReportRecords == 2
MaxForecastTime == 1200
MaxHandshakes == 7
MaxWsEvents == 1
MaxLimiterTime == 300
MaxAttempts == 3
MaxClientSockets == 5
MaxRateLimits == 3

\* ------------------------------------------------- constants of the source
MAX_HISTORY == 1000
MAX_METRICS == 1000
ACCURACY_THRESHOLD == 80
TIME_TOLERANCE == 1800
FIVE_MINUTES == 300

MIN_PATTERN_OCCURRENCES == 3
ANALYSIS_INTERVAL == 3600
GROUP_WINDOW == 300
THIRTY_DAYS == 2592000

BATCH_WINDOW == 300
CLEANUP_INTERVAL == 86400
CORRELATION_WINDOW == 60

CHECK_INTERVAL == 300
NOTIFICATION_THRESHOLD == 70
WINDOW_MS == 60
MAX_REQUESTS == 600
MAX_CONNECTIONS_PER_IP == 5
LIMITER_CLEANUP_INTERVAL == 300
INITIAL_DELAY == 1000
MAX_DELAY == 30000
FACTOR == 2
RATE_LIMIT_DELAY == 1000
RATE_LIMIT_MAX_DELAY == 30000
MAX_INTERVAL == 300000
ONE_HOUR == 3600
ONE_DAY == 86400
SIX_HOURS == 21600

Null == 0 - 1
Infinity == 0 - 1
PREDICTED == "predicted_alert_pattern"

VARIABLES
    now,           \* Date.now()
    alertHistory,  \* AlertNotifier.alertHistory
    metrics,       \* PredictionAccuracyTracker.metrics
    recorded,      \* the alerts the alert source has raised so far
    archive,       \* ./logs/alert-archives: batch id -> the batch as written
    patterns,      \* AlertPatternAnalyzer.patterns
    patternsFile,  \* ./data/alert-patterns.json as last written
    nextAnalysis,  \* when the analysis interval timer fires next
    batches,       \* AlertProcessor.batches: batch id -> batch
    currentBatchId,\* AlertProcessor.currentBatchId
    batchTimers,   \* the pending setTimeout of startNewBatch: their due times
    writes,        \* archive writes of processBatch in flight: [id, data]
    nextCleanup,   \* when the cleanup interval timer fires next
    sweep,         \* a cleanup sweep in progress: [todo, data], or <<>>
    checks,        \* PredictionNotifier.checks, in the order of insertion
    cycles,        \* checkPredictions calls suspended at their await
    nextCheckAt,   \* when the check interval timer fires next
    channels,      \* AlertNotifier.channels: name -> [enabled]
    calls,         \* notifyAlert calls suspended at Promise.allSettled
    invoked,       \* channel name -> the times its notify was invoked
    completed,     \* the notifyAlert calls that have settled, with their result
    accuracyReport,\* the result of the last getAccuracyMetrics call, or <<>>
    predictionsReport, \* the result of the last getPatternPredictions query, or <<>>
    connectionsPerIP, \* WebSocketRateLimiter.connectionsPerIP
    rateLimits,    \* WebSocketRateLimiter.rateLimits
    sockets,       \* the admitted sockets not yet disconnected: [id, ip]
    lastHandshake, \* the connection attempt handled last: [id, ip, admitted]
    nextWsCleanup, \* when the limiter's cleanup interval timer fires next
    socket,        \* AnalyticsClient.socket: the id of an io() socket, or Null
    ioSockets,     \* the sockets io() has made, by id: connecting, connected, closed
    retryCount,    \* AnalyticsClient.retryCount
    retryTimeout,  \* AnalyticsClient.retryTimeout: <<>> or the pending timer [delay]
    subscriptionOptions, \* AnalyticsClient.subscriptionOptions: <<>> or the options
    clientConfig,  \* AnalyticsClient.config and the listeners its user has set
    clientOut,     \* what the last client operation emitted, sent and threw
    rateDelays,    \* the delays of the 'rate_limited' events emitted so far
    attempts,      \* the 'reconnecting' events since the last 'connected' or
                   \* disconnect()
    dropped,       \* a subscription was active when the client's connection
                   \* dropped, and no socket has connected since
    \* signaling server (server.ts)
    serverSockets, \* io.sockets.sockets: the ids of the connected sockets
    userPairs,     \* userPairs: id -> partner id, NoId where there is no entry
    userInterests, \* userInterests: id -> interests, <<>> where there is no entry
    interestQueues, \* interestQueues: interest -> waiting ids
    genericQueue,  \* genericQueue
    deviceSet,     \* deviceSet
    socketToDeviceId, \* socketToDeviceId: id -> device id, "" where there is no entry
    pairing,       \* the calls of findPartnerFor awaiting the two profiles
    autoPairingTimers, \* the pending setTimeout(checkAutoPairing, 1000)
    serverOut,     \* what the last server step emitted: [to, name, data]
    served,        \* the find_partner and end_chat events handled so far
    connections,   \* the sockets that have connected so far
    \* startup of the accuracy tracker (part_009)
    metricsFile,   \* ./data/prediction-accuracy.json: <<>> or <<the file>>
    metricsLoad    \* loadMetrics: "reading" while its readFile is awaited, else "done"

storeVars == <<alertHistory, metrics, recorded>>
minerVars == <<archive, patterns, patternsFile, nextAnalysis>>
batcherVars == <<batches, currentBatchId, batchTimers, writes, nextCleanup, sweep>>
schedulerVars == <<checks, cycles, nextCheckAt>>
channelVars == <<channels, calls, invoked, completed>>
reportVars == <<accuracyReport, predictionsReport>>
limiterVars == <<connectionsPerIP, rateLimits, sockets, lastHandshake, nextWsCleanup>>
clientVars == <<socket, ioSockets, retryCount, retryTimeout, subscriptionOptions,
                clientConfig, clientOut, rateDelays, attempts, dropped>>
serverVars == <<serverSockets, userPairs, userInterests, interestQueues, genericQueue,
                deviceSet, socketToDeviceId, pairing, autoPairingTimers, serverOut, served,
                connections>>
loaderVars == <<metricsFile, metricsLoad>>
auxVars == <<channelVars, reportVars, limiterVars, clientVars, serverVars, loaderVars>>
vars == <<now, storeVars, minerVars, batcherVars, schedulerVars, auxVars>>

\* ---------------------------------------------------------------- helpers
Abs(x) == IF x < 0 THEN 0 - x ELSE x
Min(a, b) == IF a <= b THEN a ELSE b
Max(a, b) == IF a >= b THEN a ELSE b

\* Array.prototype.slice(-n): the last n elements
SliceLast(s, n) == IF Len(s) <= n THEN s ELSE SubSeq(s, Len(s) - n + 1, Len(s))
\* a wrong slice(0, n): the first n elements
SliceFirst(s, n) == IF Len(s) <= n THEN s ELSE SubSeq(s, 1, n)

Alert(type, value, timestamp, severity) ==
    [type |-> type, value |-> value, threshold |-> 0, timestamp |-> timestamp,
     severity |-> severity, message |-> <<>>]

\* ------------------------------------------------------- Accuracy Tracker
\* the linear loss without the plateau of the first five minutes
CalculateAccuracyLinear(predicted, actual) ==
    Max(0, (TIME_TOLERANCE - FIVE_MINUTES) - (Abs(predicted - actual) - FIVE_MINUTES))

\* calculateAccuracy, times 1500
CalculateAccuracy(predicted, actual) ==
    LET timeDiff == Abs(predicted - actual) IN
    IF timeDiff <= FIVE_MINUTES
    THEN TIME_TOLERANCE - FIVE_MINUTES
    ELSE Max(0, (TIME_TOLERANCE - FIVE_MINUTES) - (timeDiff - FIVE_MINUTES))

\* the closest alert taken without the filter on the tolerance window
FindRelevantAlertAnywhere(prediction, alerts) ==
    LET dist(i) == Abs(alerts[i].timestamp - prediction.predictedTime)
    IN IF alerts = <<>> THEN 0
       ELSE CHOOSE i \in DOMAIN alerts :
              \A j \in DOMAIN alerts : dist(i) < dist(j) \/ (dist(i) = dist(j) /\ i <= j)

\* findRelevantAlert: the index in alerts of the alert closest to
\* predictedTime among those within the tolerance window (Array.sort is
\* stable: of two equally close alerts the earlier in the list wins); 0 if none
FindRelevantAlert(prediction, alerts) ==
    LET windowStart == prediction.predictedTime - TIME_TOLERANCE
        windowEnd == prediction.predictedTime + TIME_TOLERANCE
        inWin == {i \in DOMAIN alerts :
                    /\ alerts[i].timestamp >= windowStart
                    /\ alerts[i].timestamp <= windowEnd}
        dist(i) == Abs(alerts[i].timestamp - prediction.predictedTime)
    IN IF inWin = {} THEN 0
       ELSE CHOOSE i \in inWin :
              \A j \in inWin : dist(i) < dist(j) \/ (dist(i) = dist(j) /\ i <= j)

\* the filter without its !m.verified
UnverifiedAny(m, patternId) == m.patternId = patternId
\* the filter of verifyPrediction: the records a call may touch
Unverified(m, patternId) == m.patternId = patternId /\ ~m.verified

\* verifyPrediction
VerifyPrediction(ms, patternId, actualAlerts) ==
    [i \in DOMAIN ms |->
        IF Unverified(ms[i], patternId)
        THEN LET k == FindRelevantAlert(ms[i], actualAlerts) IN
             IF k # 0
             THEN [ms[i] EXCEPT
                     !.actualTime = actualAlerts[k].timestamp,
                     !.accuracy = CalculateAccuracy(ms[i].predictedTime,
                                                    actualAlerts[k].timestamp),
                     !.verified = TRUE]
             ELSE ms[i]
        ELSE ms[i]]

\* recordPrediction
RecordPrediction(ms, prediction) ==
    SliceLast(Append(ms, [patternId |-> prediction.id,
                          predictedTime |-> prediction.prediction.nextExpected,
                          actualTime |-> Null,
                          confidence |-> prediction.prediction.confidence,
                          accuracy |-> Null,
                          verified |-> FALSE]),
              MAX_METRICS)

\* ------------------------------------------------------------ Alert Store
\* the trim keeping the oldest entries: slice(0, MAX_HISTORY)
TrimHistoryFirst(h) == SliceFirst(h, MAX_HISTORY)
\* notifyAlert, the trim of the history: slice(-MAX_HISTORY)
TrimHistory(h) == SliceLast(h, MAX_HISTORY)

\* notifyAlert: the history append and the verification of pending
\* predictions for `pattern-${alert.type}` with the alert as passed
NotifyAlertHistory(h, alert) ==
    TrimHistory(Append(h, [alert EXCEPT !.timestamp = now]))

\* the verification without the test of line 110
NotifyAlertMetricsAnyType(ms, alert) ==
    IF alert.type # PREDICTED
    THEN VerifyPrediction(ms, <<"pattern", alert.type>>, <<alert>>)
    ELSE ms

\* lines 104-116: if (alert.type) holds of every string but the empty one
NotifyAlertMetrics(ms, alert) ==
    IF alert.type # PREDICTED /\ alert.type # ""
    THEN VerifyPrediction(ms, <<"pattern", alert.type>>, <<alert>>)
    ELSE ms

NotifyAlert(alert) ==
    /\ alertHistory' = NotifyAlertHistory(alertHistory, alert)
    /\ metrics' = NotifyAlertMetrics(metrics, alert)

InitTracker == metrics = <<>>

\* the constructor of AlertNotifier (no alert raised yet)
InitNotifier == alertHistory = <<>> /\ recorded = 0

\* ------------------------------------------------- notification channels
ChannelNames == {"slack", "email", "webhook"}

\* initializeChannels: a channel is registered, enabled, when its environment
\* variable is set; env is the set of the channels configured
InitializeChannels(env) == [c \in env |-> [enabled |-> TRUE]]

\* what a channel's fetch can come to: a response that is ok, a response that
\* is not, or a rejection
Responses == {"ok", "http_error", "network_error"}

\* the promise of a channel's notify leaving its try/catch with the error
\* thrown on
NotifyOutcomeUncaught(c, response) ==
    IF response = "ok" THEN "fulfilled" ELSE "rejected"

\* the promise returned by a channel's notify: slack and webhook throw on a
\* response that is not ok, catch what fetch or they threw, and log it; email
\* only logs
NotifyOutcome(c, response) ==
    IF c = "email" THEN "fulfilled"
    ELSE IF response = "ok" THEN "fulfilled"
    ELSE "fulfilled"

\* await Promise.allSettled(notifications): fulfilled whatever the promises
\* came to
PromiseAllSettled(outcomes) == "fulfilled"

\* notifyAlert, lines 123-125: the channels whose notify is invoked
EnabledChannels(chs) == {c \in DOMAIN chs : chs[c].enabled}

\* notifyAlert up to its await: the history, the verification, and notify
\* invoked on every enabled channel (email's has no await and is settled at
\* once; slack's and webhook's are pending on their fetch)
NotifyAlertStart(alert) ==
    /\ NotifyAlert(alert)
    /\ LET started == EnabledChannels(channels) IN
       /\ invoked' = [c \in ChannelNames |->
                        IF c \in started THEN invoked[c] + 1 ELSE invoked[c]]
       /\ calls' = Append(calls,
                          [alert |-> alert,
                           outcomes |-> [c \in started |->
                                           IF c = "email"
                                           THEN NotifyOutcome(c, "ok")
                                           ELSE "pending"],
                           responses |-> [c \in started |->
                                            IF c = "email" THEN "ok" ELSE "pending"]])
    /\ UNCHANGED <<channels, completed>>

\* the fetch of channel c in call k comes to a response
ChannelResponse(k, c, response) ==
    /\ k \in DOMAIN calls
    /\ c \in DOMAIN calls[k].outcomes
    /\ calls[k].outcomes[c] = "pending"
    /\ calls' = [calls EXCEPT ![k].outcomes[c] = NotifyOutcome(c, response),
                              ![k].responses[c] = response]
    /\ UNCHANGED <<channels, invoked, completed>>

\* every promise of call k has settled: notifyAlert goes on after its await
\* and returns (or throws what the await threw)
NotifyAlertSettled(k) ==
    /\ k \in DOMAIN calls
    /\ \A c \in DOMAIN calls[k].outcomes : calls[k].outcomes[c] # "pending"
    /\ completed' = Append(completed,
                           [alert |-> calls[k].alert,
                            responses |-> calls[k].responses,
                            result |-> PromiseAllSettled(calls[k].outcomes)])
    /\ calls' = [j \in 1..(Len(calls) - 1) |-> IF j < k THEN calls[j] ELSE calls[j + 1]]
    /\ UNCHANGED <<channels, invoked>>

\* the constructor of AlertNotifier with no channel configured
InitChannels ==
    /\ channels = InitializeChannels({})
    /\ calls = <<>>
    /\ invoked = [c \in ChannelNames |-> 0]
    /\ completed = <<>>

\* ---------------------------------------------------------- Pattern Miner
\* alerts.sort((a, b) => a.timestamp - b.timestamp): a stable sort
RECURSIVE InsertByTimestamp(_, _)
InsertByTimestamp(sorted, a) ==
    IF sorted = <<>> THEN <<a>>
    ELSE IF sorted[Len(sorted)].timestamp <= a.timestamp THEN Append(sorted, a)
    ELSE Append(InsertByTimestamp(SubSeq(sorted, 1, Len(sorted) - 1), a),
                sorted[Len(sorted)])

RECURSIVE SortByTimestamp(_)
SortByTimestamp(alerts) ==
    IF alerts = <<>> THEN <<>>
    ELSE InsertByTimestamp(SortByTimestamp(SubSeq(alerts, 1, Len(alerts) - 1)),
                           alerts[Len(alerts)])

\* groups kept only from three alerts on
KeepGroupOverTwo(group) == Len(group) > 2
\* the groups kept by groupAlertsByTimeWindow: those of more than one alert
KeepGroup(group) == Len(group) > 1
\* groupAlertsByTimeWindow, the forEach from alert k on: cur is currentGroup
RECURSIVE GroupFrom(_, _, _, _)
GroupFrom(sorted, k, cur, groups) ==
    IF k > Len(sorted)
    THEN IF KeepGroup(cur) THEN Append(groups, cur) ELSE groups
    ELSE IF cur = <<>>
    THEN GroupFrom(sorted, k + 1, <<sorted[k]>>, groups)
    ELSE IF sorted[k].timestamp - cur[1].timestamp <= GROUP_WINDOW
    THEN GroupFrom(sorted, k + 1, Append(cur, sorted[k]), groups)
    ELSE GroupFrom(sorted, k + 1, <<sorted[k]>>,
                   IF KeepGroup(cur) THEN Append(groups, cur) ELSE groups)

\* a grouping that ignores the window: the alerts of a batch are one group
GroupAlertsTogether(alerts) == <<SortByTimestamp(alerts)>>
\* groupAlertsByTimeWindow
GroupAlertsByTimeWindow(alerts) == GroupFrom(SortByTimestamp(alerts), 1, <<>>, <<>>)

\* [...new Set(alerts.map(a => a.type))]: the types in order of first occurrence
RECURSIVE UniqueTypes(_)
UniqueTypes(alerts) ==
    IF alerts = <<>> THEN <<>>
    ELSE LET init == UniqueTypes(SubSeq(alerts, 1, Len(alerts) - 1))
             t == alerts[Len(alerts)].type
         IN IF \E i \in DOMAIN init : init[i] = t THEN init ELSE Append(init, t)

MaxTimestamp(alerts) ==
    CHOOSE t \in {alerts[i].timestamp : i \in DOMAIN alerts} :
        \A i \in DOMAIN alerts : alerts[i].timestamp <= t
MinTimestamp(alerts) ==
    CHOOSE t \in {alerts[i].timestamp : i \in DOMAIN alerts} :
        \A i \in DOMAIN alerts : alerts[i].timestamp >= t

\* calculateFrequency: alerts per hour, to whole alerts; a span of 0 divides
\* by zero and gives Infinity
CalculateFrequency(alerts) ==
    LET timeSpan == MaxTimestamp(alerts) - MinTimestamp(alerts) IN
    IF timeSpan = 0 THEN Infinity ELSE (Len(alerts) * 3600) \div timeSpan

\* `pattern-${alertTypes.join('-')}-${timeWindow}`
PatternId(alertTypes, timeWindow) ==
    <<"pattern">> \o alertTypes \o <<ToString(timeWindow)>>

\* createPattern
CreatePattern(alerts) ==
    LET alertTypes == UniqueTypes(alerts)
        timeWindow == MaxTimestamp(alerts) - MinTimestamp(alerts)
    IN [id |-> PatternId(alertTypes, timeWindow),
        pattern |-> [alertTypes |-> alertTypes,
                     timeWindow |-> timeWindow,
                     severity |-> IF \E i \in DOMAIN alerts : alerts[i].severity = "critical"
                                  THEN "critical" ELSE "warning",
                     frequency |-> CalculateFrequency(alerts)],
        occurrences |-> 1,
        lastSeen |-> MaxTimestamp(alerts),
        prediction |-> <<>>]

\* the running average of updatePattern, to whole alerts per hour
AverageFrequency(old, occurrences, new) ==
    IF old = Infinity \/ new = Infinity THEN Infinity
    ELSE (old * (occurrences - 1) + new) \div occurrences

\* the comparison written > instead of >=
ReachedMinOccurrencesStrict(occurrences) == occurrences > MIN_PATTERN_OCCURRENCES
\* existing.occurrences >= this.MIN_PATTERN_OCCURRENCES
ReachedMinOccurrences(occurrences) == occurrences >= MIN_PATTERN_OCCURRENCES

\* Math.max written for Math.min
PredictionConfidenceMax(occurrences) == Max(50 + occurrences * 10, 90)
\* Math.min(0.5 + (existing.occurrences * 0.1), 0.9), in hundredths
PredictionConfidence(occurrences) == Min(50 + occurrences * 10, 90)

\* updatePattern; the quotient avgTimeBetween is taken to whole seconds
UpdatePattern(ps, newPattern) ==
    IF newPattern.id \in DOMAIN ps
    THEN LET existing == ps[newPattern.id]
             occurrences == existing.occurrences + 1
             lastSeen == newPattern.lastSeen
             avgTimeBetween ==
                 IF existing.prediction # <<>>
                 THEN (lastSeen - existing.prediction[1].nextExpected) \div (occurrences - 1)
                 ELSE 0
         IN [ps EXCEPT ![newPattern.id] =
                [existing EXCEPT
                   !.occurrences = occurrences,
                   !.lastSeen = lastSeen,
                   !.pattern.frequency =
                       AverageFrequency(existing.pattern.frequency, occurrences,
                                        newPattern.pattern.frequency),
                   !.prediction =
                       IF ReachedMinOccurrences(occurrences)
                       THEN <<[nextExpected |-> lastSeen + avgTimeBetween,
                               confidence |-> PredictionConfidence(occurrences)]>>
                       ELSE existing.prediction]]
    ELSE [id \in DOMAIN ps \cup {newPattern.id} |->
            IF id = newPattern.id THEN newPattern ELSE ps[id]]

\* the sweep deciding on age alone
CleanupPatternsByAge(ps) ==
    LET keep == {id \in DOMAIN ps : ~(now - ps[id].lastSeen > THIRTY_DAYS)}
    IN [id \in keep |-> ps[id]]

\* cleanupPatterns
CleanupPatterns(ps) ==
    LET keep == {id \in DOMAIN ps :
                   ~(/\ now - ps[id].lastSeen > THIRTY_DAYS
                     /\ ps[id].occurrences < MIN_PATTERN_OCCURRENCES)}
    IN [id \in keep |-> ps[id]]

\* detectPatterns, the inner forEach over the groups of one batch
RECURSIVE MergeGroups(_, _, _)
MergeGroups(ps, groups, k) ==
    IF k > Len(groups) THEN ps
    ELSE MergeGroups(IF Len(groups[k]) >= 2
                     THEN UpdatePattern(ps, CreatePattern(groups[k]))
                     ELSE ps,
                     groups, k + 1)

\* detectPatterns, the outer forEach over the batches lo..hi of the list, in
\* order (the range is halved, and its first half merged before the second is
\* entered, so that long archives fold in shallow depth)
RECURSIVE MergeBatches(_, _, _, _)
MergeBatches(ps, batchList, lo, hi) ==
    IF lo > hi THEN ps
    ELSE IF lo = hi
    THEN MergeGroups(ps, GroupAlertsByTimeWindow(batchList[lo].alerts), 1)
    ELSE LET mid == (lo + hi) \div 2
             merged == MergeBatches(ps, batchList, lo, mid)
         IN IF merged = ps
            THEN MergeBatches(ps, batchList, mid + 1, hi)
            ELSE MergeBatches(merged, batchList, mid + 1, hi)

DetectPatterns(ps, batchList) ==
    CleanupPatterns(MergeBatches(ps, batchList, 1, Len(batchList)))

\* an archive file whose content is not JSON
MalformedFile == [malformed |-> TRUE]

\* JSON.parse(data) returns
JsonParses(file) == "malformed" \notin DOMAIN file

\* the orders in which readdir may list the files of a set of ids
Orders(ids) ==
    {o \in [1..Cardinality(ids) -> ids] : \A i, j \in DOMAIN o : i # j => o[i] # o[j]}

\* analyzeArchivedBatches, run by the interval timer: every file of the
\* archive directory is read, in the order readdir lists them, and merged;
\* the registry is then written (a failed write is logged and swallowed)
\* (JSON.parse throws on a file that is not JSON, which rejects the
\* Promise.all of the reads: the catch of line 102 logs it and the cycle ends
\* with nothing merged and nothing written)
AnalyzeArchivedBatches(order, saved) ==
    /\ now = nextAnalysis
    /\ IF \A i \in DOMAIN order : JsonParses(archive[order[i]])
       THEN /\ patterns' = DetectPatterns(patterns,
                                          [i \in DOMAIN order |-> archive[order[i]]])
            /\ patternsFile' = IF saved THEN patterns' ELSE patternsFile
       ELSE UNCHANGED <<patterns, patternsFile>>
    /\ nextAnalysis' = now + ANALYSIS_INTERVAL

EmptyMap == [x \in {} |-> <<>>]

InitMiner ==
    /\ archive = EmptyMap
    /\ patterns = EmptyMap
    /\ patternsFile = EmptyMap
    /\ nextAnalysis = ANALYSIS_INTERVAL

\* ---------------------------------------------------------------- Batcher
\* determineCorrelationType
DetermineCorrelationType(primary, related) ==
    IF \A i \in DOMAIN related : related[i].timestamp > primary.timestamp THEN "cause"
    ELSE IF \A i \in DOMAIN related : related[i].timestamp < primary.timestamp THEN "effect"
    ELSE "related"

RECURSIVE SumSeq(_)
SumSeq(xs) == IF xs = <<>> THEN 0 ELSE xs[1] + SumSeq(Tail(xs))

\* calculateCorrelationConfidence, in millionths (each quotient to whole
\* millionths).  1 / |difference in ms| is 1000 millionths / |difference in s|;
\* a difference of 0 divides by zero: Infinity, which Math.min caps at 1
CalculateCorrelationConfidence(primary, related) ==
    LET n == Len(related)
        diff(i) == Abs(related[i].timestamp - primary.timestamp)
        sameTypeCount == Cardinality({i \in DOMAIN related : related[i].type = primary.type})
        sameSeverityCount ==
            Cardinality({i \in DOMAIN related : related[i].severity = primary.severity})
    IN IF \E i \in DOMAIN related : diff(i) = 0 THEN 1000000
       ELSE LET timeProximity == SumSeq([i \in DOMAIN related |-> 1000 \div diff(i)]) \div n
            IN Min((timeProximity * 4) \div 10
                     + (sameTypeCount * 300000) \div n
                     + (sameSeverityCount * 300000) \div n,
                   1000000)

\* the other alerts strictly less than the window away
RECURSIVE RelatedAlertsStrict(_, _, _)
RelatedAlertsStrict(alerts, i, j) ==
    IF j > Len(alerts) THEN <<>>
    ELSE IF j # i /\ Abs(alerts[j].timestamp - alerts[i].timestamp) < CORRELATION_WINDOW
    THEN <<alerts[j]>> \o RelatedAlertsStrict(alerts, i, j + 1)
    ELSE RelatedAlertsStrict(alerts, i, j + 1)

\* alerts.filter(a => a !== alert && |a.timestamp - alert.timestamp| <= 60000):
\* the other alerts of the batch, in order
RECURSIVE RelatedAlerts(_, _, _)
RelatedAlerts(alerts, i, j) ==
    IF j > Len(alerts) THEN <<>>
    ELSE IF j # i /\ Abs(alerts[j].timestamp - alerts[i].timestamp) <= CORRELATION_WINDOW
    THEN <<alerts[j]>> \o RelatedAlerts(alerts, i, j + 1)
    ELSE RelatedAlerts(alerts, i, j + 1)

\* findCorrelations
RECURSIVE FindCorrelationsFrom(_, _)
FindCorrelationsFrom(alerts, i) ==
    IF i > Len(alerts) THEN <<>>
    ELSE LET related == RelatedAlerts(alerts, i, 1) IN
         (IF related # <<>>
          THEN <<[primaryAlert |-> alerts[i],
                  relatedAlerts |-> related,
                  correlationType |-> DetermineCorrelationType(alerts[i], related),
                  confidence |-> CalculateCorrelationConfidence(alerts[i], related)]>>
          ELSE <<>>) \o FindCorrelationsFrom(alerts, i + 1)

FindCorrelations(alerts) == FindCorrelationsFrom(alerts, 1)

MapPut(f, k, v) == [x \in DOMAIN f \cup {k} |-> IF x = k THEN v ELSE f[x]]
MapDelete(f, k) == [x \in DOMAIN f \ {k} |-> f[x]]

\* startNewBatch: the batch `batch-${Date.now()}` is identified by its time
NewBatch(t) ==
    [id |-> t, alerts |-> <<>>, correlations |-> <<>>, timestamp |-> t, processed |-> FALSE]

StartNewBatch(bs) ==
    /\ currentBatchId' = now
    /\ batches' = MapPut(bs, now, NewBatch(now))
    /\ batchTimers' = batchTimers \cup {now + BATCH_WINDOW}

\* addAlert
AddAlert(alert) ==
    /\ batches' =
         IF currentBatchId \in DOMAIN batches /\ ~batches[currentBatchId].processed
         THEN [batches EXCEPT ![currentBatchId].alerts = Append(@, alert)]
         ELSE batches
    /\ UNCHANGED <<currentBatchId, batchTimers, writes, nextCleanup, sweep>>

\* the timer of startNewBatch fires: processBatch(this.currentBatchId) up to
\* its await.  The correlations are stored and the batch is serialised for
\* the write (JSON.stringify runs before writeFile is awaited).
ProcessBatch ==
    /\ now \in batchTimers
    /\ IF currentBatchId \in DOMAIN batches /\ ~batches[currentBatchId].processed
       THEN LET batch == [batches[currentBatchId] EXCEPT
                            !.correlations = FindCorrelations(batches[currentBatchId].alerts)]
            IN /\ batches' = [batches EXCEPT ![currentBatchId] = batch]
               /\ writes' = writes \cup {[id |-> currentBatchId, data |-> batch]}
       ELSE UNCHANGED <<batches, writes>>
    /\ batchTimers' = batchTimers \ {now}
    /\ UNCHANGED <<currentBatchId, nextCleanup, sweep>>

\* processBatch after its await: the write succeeded (the batch is marked
\* processed and, if it is the current one, a new batch is started) or it
\* failed (archiveBatch rethrows, processBatch logs the error)
ArchiveDone(w, ok) ==
    /\ w \in writes
    /\ writes' = writes \ {w}
    /\ IF ok
       THEN /\ archive' = MapPut(archive, w.id, w.data)
            /\ LET bs == IF w.id \in DOMAIN batches
                         THEN [batches EXCEPT ![w.id].processed = TRUE]
                         ELSE batches
               IN IF w.id = currentBatchId
                  THEN StartNewBatch(bs)
                  ELSE /\ batches' = bs
                       /\ UNCHANGED <<currentBatchId, batchTimers>>
       ELSE UNCHANGED <<archive, batches, currentBatchId, batchTimers>>
    /\ UNCHANGED <<nextCleanup, sweep>>

\* the batches cleanupOldBatches selects, in the order of the map (the order
\* of creation)
RECURSIVE SortRange(_, _, _)
SortRange(ids, lo, hi) ==
    IF ids = {} THEN <<>>
    ELSE IF lo = hi THEN <<lo>>
    ELSE LET mid == (lo + hi) \div 2
         IN SortRange({x \in ids : x <= mid}, lo, mid)
               \o SortRange({x \in ids : x > mid}, mid + 1, hi)

\* an id is the time its batch was started at, between 0 and now
AscendingSeq(ids) == SortRange(ids, 0, now)

OldBatches == {id \in DOMAIN batches : now - batches[id].timestamp > CLEANUP_INTERVAL}

\* the for loop of cleanupOldBatches at the batch todo[1]: archiveBatch
\* serialises the batch as it is now and its write is awaited
SweepAt(todo, bs) ==
    IF todo = <<>> THEN <<>>
    ELSE <<[todo |-> todo, data |-> bs[todo[1]]]>>

\* the cleanup interval timer fires: cleanupOldBatches up to its first await
CleanupOldBatches ==
    /\ now = nextCleanup
    /\ sweep = <<>>
    /\ nextCleanup' = now + CLEANUP_INTERVAL
    /\ sweep' = SweepAt(AscendingSeq(OldBatches), batches)
    /\ UNCHANGED <<batches, currentBatchId, batchTimers, writes>>

\* cleanupOldBatches after an await: the write succeeded (the batch is
\* deleted from the map) or failed (logged); the loop goes on
CleanupDone(ok) ==
    /\ sweep # <<>>
    /\ LET id == sweep[1].todo[1] IN
       /\ archive' = IF ok THEN MapPut(archive, id, sweep[1].data) ELSE archive
       /\ sweep' = SweepAt(Tail(sweep[1].todo), batches)
       /\ batches' = IF ok THEN MapDelete(batches, id) ELSE batches
    /\ UNCHANGED <<currentBatchId, batchTimers, writes, nextCleanup>>

\* the constructor: startNewBatch, startCleanupTimer
InitBatcher ==
    /\ currentBatchId = 0
    /\ batches = [id \in {0} |-> NewBatch(0)]
    /\ batchTimers = {BATCH_WINDOW}
    /\ writes = {}
    /\ nextCleanup = CLEANUP_INTERVAL
    /\ sweep = <<>>

\* --------------------------------------------------- Prediction Scheduler
\* getPatternPredictions: the patterns with a prediction in the future, each
\* with its dueIn, sorted by dueIn.  The sort is stable and the registry is a
\* Map, so patterns equally due keep the order of their insertion, which the
\* registry of this model does not keep: every order of them is a result.
WithDueIn(p) ==
    [id |-> p.id, pattern |-> p.pattern, occurrences |-> p.occurrences,
     lastSeen |-> p.lastSeen, prediction |-> p.prediction,
     dueIn |-> p.prediction[1].nextExpected - now]

\* the filter written >= instead of >
FutureIdsInclusive ==
    {id \in DOMAIN patterns :
        patterns[id].prediction # <<>> /\ patterns[id].prediction[1].nextExpected >= now}

\* .filter(p => p.prediction && p.prediction.nextExpected > now)
FutureIds ==
    {id \in DOMAIN patterns :
        patterns[id].prediction # <<>> /\ patterns[id].prediction[1].nextExpected > now}

GetPatternPredictions ==
    {[i \in DOMAIN o |-> WithDueIn(patterns[o[i]])] :
        o \in {o \in Orders(FutureIds) :
                 \A i, j \in DOMAIN o :
                    i < j => patterns[o[i]].prediction[1].nextExpected
                               <= patterns[o[j]].prediction[1].nextExpected}}

\* the first comparison written < instead of <=
CalculateNextCheckStrict(dueIn) ==
    IF dueIn < ONE_HOUR THEN now + CHECK_INTERVAL
    ELSE IF dueIn <= ONE_DAY THEN now + ONE_HOUR
    ELSE now + SIX_HOURS

\* calculateNextCheck
CalculateNextCheck(dueIn) ==
    IF dueIn <= ONE_HOUR THEN now + CHECK_INTERVAL
    ELSE IF dueIn <= ONE_DAY THEN now + ONE_HOUR
    ELSE now + SIX_HOURS

\* formatDuration
FormatDuration(d) ==
    LET hours == d \div 3600
        minutes == (d % 3600) \div 60
    IN IF hours > 24 THEN <<hours \div 24, "days">>
       ELSE IF hours > 0 THEN <<hours, "h", minutes, "m">>
       ELSE <<minutes, "m">>

\* the alert built by notifyPrediction
PredictionAlert(prediction) ==
    [type |-> PREDICTED,
     value |-> prediction.pattern.frequency,
     threshold |-> 0,
     timestamp |-> now,
     severity |-> "warning",
     message |-> <<"Predicted alert pattern", prediction.pattern.alertTypes,
                   "expected in", FormatDuration(prediction.dueIn)>>]

\* checkPredictions, lines 245-253: a check for every prediction not tracked
RECURSIVE AddChecks(_, _, _)
AddChecks(chk, preds, k) ==
    IF k > Len(preds) THEN chk
    ELSE AddChecks(IF \E i \in DOMAIN chk : chk[i].patternId = preds[k].id
                   THEN chk
                   ELSE Append(chk, [patternId |-> preds[k].id,
                                     nextCheck |-> CalculateNextCheck(preds[k].dueIn),
                                     notified |-> FALSE]),
                   preds, k + 1)

\* cleanupChecks: the checks of patterns no longer predicted are deleted
CleanupChecks(chk, preds) ==
    SelectSeq(chk, LAMBDA c : \E k \in DOMAIN preds : preds[k].id = c.patternId)

\* the comparison written > instead of >=
ClearsThresholdStrict(prediction) ==
    prediction.prediction[1].confidence > NOTIFICATION_THRESHOLD

\* prediction.prediction.confidence >= this.NOTIFICATION_THRESHOLD
ClearsThreshold(prediction) ==
    prediction.prediction[1].confidence >= NOTIFICATION_THRESHOLD

\* predictions.find(p => p.id === id): its index, 0 if none
FindPrediction(preds, id) ==
    IF \E k \in DOMAIN preds : preds[k].id = id
    THEN CHOOSE k \in DOMAIN preds :
            preds[k].id = id /\ \A j \in DOMAIN preds : preds[j].id = id => k <= j
    ELSE 0

SetCheck(chk, id, nextCheck, notified) ==
    [i \in DOMAIN chk |->
        IF chk[i].patternId = id
        THEN [chk[i] EXCEPT !.nextCheck = nextCheck, !.notified = notified]
        ELSE chk[i]]

\* The for loop of checkPredictions (lines 256-267) over the live entries of
\* the checks map, from the first entry not yet visited up to the next await
\* or to the end of the call (cleanupChecks).  st is [checks, metrics,
\* history, cycle]; the result has done = TRUE when the call has returned.
\* A cycle is [preds, t0, visited, awaiting, detached].
RECURSIVE RunLoop(_)
RunLoop(st) ==
    LET cyc == st.cycle
        todo == {i \in DOMAIN st.checks : st.checks[i].patternId \notin cyc.visited}
    IN IF todo = {}
       THEN [checks |-> CleanupChecks(st.checks, cyc.preds), metrics |-> st.metrics,
             history |-> st.history, cycle |-> cyc, done |-> TRUE]
       ELSE LET i == CHOOSE x \in todo : \A y \in todo : x <= y
                check == st.checks[i]
                k == FindPrediction(cyc.preds, check.patternId)
                seen == [cyc EXCEPT !.visited = @ \cup {check.patternId}]
            IN IF cyc.t0 >= check.nextCheck /\ ~check.notified /\ k # 0
               THEN IF ClearsThreshold(cyc.preds[k])
                    THEN \* notifyPrediction up to the await inside notifyAlert
                         [checks |-> st.checks,
                          metrics |-> RecordPrediction(st.metrics,
                                          [id |-> cyc.preds[k].id,
                                           prediction |-> cyc.preds[k].prediction[1]]),
                          history |-> NotifyAlertHistory(st.history,
                                                         PredictionAlert(cyc.preds[k])),
                          cycle |-> [seen EXCEPT !.awaiting = check.patternId],
                          done |-> FALSE]
                    ELSE RunLoop([st EXCEPT
                            !.checks = SetCheck(@, check.patternId,
                                                CalculateNextCheck(cyc.preds[k].dueIn),
                                                check.notified),
                            !.cycle = seen])
               ELSE RunLoop([st EXCEPT !.cycle = seen])

\* a check deleted from the map is no longer the object a suspended call holds
Detach(cs, chk) ==
    [c \in DOMAIN cs |->
        IF \E i \in DOMAIN chk : chk[i].patternId = cs[c].awaiting
        THEN cs[c] ELSE [cs[c] EXCEPT !.detached = TRUE]]

Finish(res, others) ==
    /\ checks' = res.checks
    /\ metrics' = res.metrics
    /\ alertHistory' = res.history
    /\ cycles' = IF res.done THEN Detach(others, res.checks)
                 ELSE Append(others, res.cycle)

\* the check interval timer fires: checkPredictions up to its first await
CheckPredictions ==
    /\ now = nextCheckAt
    /\ nextCheckAt' = now + CHECK_INTERVAL
    /\ \E preds \in GetPatternPredictions :
          Finish(RunLoop([checks |-> AddChecks(checks, preds, 1),
                          metrics |-> metrics,
                          history |-> alertHistory,
                          cycle |-> [preds |-> preds, t0 |-> now, visited |-> {},
                                     awaiting |-> <<>>, detached |-> FALSE]]),
                 cycles)

\* the channel deliveries of a synthetic alert have settled: the suspended
\* checkPredictions marks the check notified, recomputes its nextCheck and
\* goes on with its loop
DeliveryDone(c) ==
    /\ c \in DOMAIN cycles
    /\ LET cyc == cycles[c]
           k == FindPrediction(cyc.preds, cyc.awaiting)
           chk == IF cyc.detached THEN checks
                  ELSE SetCheck(checks, cyc.awaiting,
                                CalculateNextCheck(cyc.preds[k].dueIn), TRUE)
       IN Finish(RunLoop([checks |-> chk, metrics |-> metrics, history |-> alertHistory,
                          cycle |-> [cyc EXCEPT !.awaiting = <<>>, !.detached = FALSE]]),
                 [j \in 1..(Len(cycles) - 1) |-> IF j < c THEN cycles[j] ELSE cycles[j + 1]])
    /\ UNCHANGED nextCheckAt

\* the constructor: startCheckTimer
InitScheduler ==
    /\ checks = <<>>
    /\ cycles = <<>>
    /\ nextCheckAt = CHECK_INTERVAL

\* ------------------------------------------------------ Accuracy metrics
\* calculateAverage: the mean as the pair <<sum, length>> of its quotient
CalculateAverage(values) == <<SumSeq(values), Len(values)>>

\* this.metrics.filter(m => m.verified)
VerifiedPredictions(ms) == SelectSeq(ms, LAMBDA m : m.verified)

\* getAccuracyMetrics: the counts and the two means of its result; the mean
\* 0 is <<0, 1>>
GetAccuracyMetrics(ms) ==
    LET verifiedPredictions == VerifiedPredictions(ms)
        accuracies == [i \in DOMAIN verifiedPredictions |-> verifiedPredictions[i].accuracy]
        highConfidencePredictions ==
            SelectSeq(verifiedPredictions, LAMBDA p : p.confidence >= ACCURACY_THRESHOLD)
    IN IF Len(verifiedPredictions) = 0
       THEN [totalPredictions |-> 0, verifiedPredictions |-> 0,
             averageAccuracy |-> <<0, 1>>, highConfidenceAccuracy |-> <<0, 1>>]
       ELSE [totalPredictions |-> Len(ms),
             verifiedPredictions |-> Len(verifiedPredictions),
             averageAccuracy |-> CalculateAverage(accuracies),
             highConfidenceAccuracy |->
                 IF Len(highConfidencePredictions) > 0
                 THEN CalculateAverage([i \in DOMAIN highConfidencePredictions |->
                                          highConfidencePredictions[i].accuracy])
                 ELSE <<0, 1>>]

\* a call of getAccuracyMetrics
QueryAccuracyMetrics ==
    /\ accuracyReport' = <<GetAccuracyMetrics(metrics)>>
    /\ UNCHANGED predictionsReport

\* a call of getPatternPredictions
QueryPatternPredictions ==
    /\ \E preds \in GetPatternPredictions : predictionsReport' = <<preds>>
    /\ UNCHANGED accuracyReport

InitReport ==
    /\ accuracyReport = <<>>
    /\ predictionsReport = <<>>

\* ---------------------------------------------- WebSocket rate limiter
\* this.connectionsPerIP.get(clientIP) || 0
ConnectionCount(m, ip) == IF ip \in DOMAIN m THEN m[ip] ELSE 0

\* an admission test that lets the count reach the limit and pass it by one
AdmitsAtLimit(m, ip) == ConnectionCount(m, ip) <= MAX_CONNECTIONS_PER_IP
\* checkConnection: its result
Admits(m, ip) == ConnectionCount(m, ip) < MAX_CONNECTIONS_PER_IP
\* checkConnection: its effect on connectionsPerIP
CheckConnection(m, ip) ==
    IF Admits(m, ip) THEN MapPut(m, ip, ConnectionCount(m, ip) + 1) ELSE m

\* removeConnection
RemoveConnection(m, ip) ==
    IF ConnectionCount(m, ip) > 0 THEN MapPut(m, ip, ConnectionCount(m, ip) - 1) ELSE m

\* checkLimit: its effect on rateLimits
CheckLimit(rl, ip) ==
    LET limitInfo == IF ip \in DOMAIN rl THEN rl[ip] ELSE [count |-> 0, firstRequest |-> now]
        current == IF now - limitInfo.firstRequest > WINDOW_MS
                   THEN [count |-> 0, firstRequest |-> now]
                   ELSE limitInfo
    IN MapPut(rl, ip, [current EXCEPT !.count = @ + 1])
\* checkLimit: its result
WithinLimit(rl, ip) == CheckLimit(rl, ip)[ip].count <= MAX_REQUESTS

\* applyWsRateLimiting for the socket id of a client at ip: next(err) when
\* checkConnection refuses, else the handlers are installed and next() lets
\* the connection be made
ApplyWsRateLimiting(id, ip) ==
    /\ connectionsPerIP' = CheckConnection(connectionsPerIP, ip)
    /\ sockets' = IF Admits(connectionsPerIP, ip)
                  THEN sockets \cup {[id |-> id, ip |-> ip]}
                  ELSE sockets
    /\ lastHandshake' = [id |-> id, ip |-> ip, admitted |-> Admits(connectionsPerIP, ip)]
    /\ UNCHANGED <<rateLimits, nextWsCleanup>>

\* the 'disconnect' handler installed by applyWsRateLimiting
OnDisconnect(s) ==
    /\ s \in sockets
    /\ connectionsPerIP' = RemoveConnection(connectionsPerIP, s.ip)
    /\ sockets' = sockets \ {s}
    /\ UNCHANGED <<rateLimits, lastHandshake, nextWsCleanup>>

\* socket.onevent as replaced by applyWsRateLimiting, followed, for an
\* 'export' event that passed it, by the check of the export handler
OnEvent(s, export) ==
    /\ s \in sockets
    /\ rateLimits' = IF export /\ WithinLimit(rateLimits, s.ip)
                     THEN CheckLimit(CheckLimit(rateLimits, s.ip), s.ip)
                     ELSE CheckLimit(rateLimits, s.ip)
    /\ UNCHANGED <<connectionsPerIP, sockets, lastHandshake, nextWsCleanup>>

\* the interval callback of startCleanupInterval
LimiterCleanup ==
    /\ now = nextWsCleanup
    /\ rateLimits' = [ip \in {ip \in DOMAIN rateLimits :
                                ~(now - rateLimits[ip].firstRequest > WINDOW_MS)}
                         |-> rateLimits[ip]]
    /\ connectionsPerIP' = [ip \in {ip \in DOMAIN connectionsPerIP :
                                      ~(connectionsPerIP[ip] <= 0)}
                               |-> connectionsPerIP[ip]]
    /\ nextWsCleanup' = now + LIMITER_CLEANUP_INTERVAL
    /\ UNCHANGED <<sockets, lastHandshake>>

\* the constructor of WebSocketRateLimiter
InitLimiter ==
    /\ connectionsPerIP = EmptyMap
    /\ rateLimits = EmptyMap
    /\ sockets = {}
    /\ lastHandshake = [id |-> 0, ip |-> "", admitted |-> FALSE]
    /\ nextWsCleanup = LIMITER_CLEANUP_INTERVAL

\* ------------------------------------------------------ Analytics client
\* The client as the record c of its fields, with out: what the operation
\* under way has emitted (EventEmitter.emit), sent (socket.emit) and thrown.
RECURSIVE Pow(_, _)
Pow(b, n) == IF n = 0 THEN 1 ELSE b * Pow(b, n - 1)

\* this.socket?.connected
SocketConnected(c) == c.socket # Null /\ c.ioSockets[c.socket] = "connected"

\* an exception leaves the handler or method: nothing after it runs
Thrown(c) == c.out # <<>> /\ c.out[Len(c.out)].kind = "throw"
Throw(c, message) == [c EXCEPT !.out = Append(@, [kind |-> "throw", name |-> message])]

\* this.emit(name, data); an 'error' that nobody listens to is thrown by the
\* EventEmitter
Emit(c, name, data) ==
    IF name = "error" /\ ~c.config.listensError
    THEN Throw(c, "error")
    ELSE [c EXCEPT !.out = Append(@, [kind |-> "emit", name |-> name, data |-> data])]

\* this.socket.emit(name, data)
Send(c, name, data) ==
    [c EXCEPT !.out = Append(@, [kind |-> "send", name |-> name, data |-> data,
                                  socket |-> c.socket])]

\* connect: io() makes a new socket unless the present one is connected
Connect(c) ==
    IF SocketConnected(c) THEN c
    ELSE [c EXCEPT !.ioSockets = Append(@, "connecting"),
                   !.socket = Len(c.ioSockets) + 1]

\* subscribe
Subscribe(c, options) ==
    IF ~SocketConnected(c) THEN Throw(c, "Client not connected")
    ELSE Send([c EXCEPT !.subscriptionOptions = <<options>>], "subscribe", options)

\* unsubscribe
Unsubscribe(c) ==
    IF ~SocketConnected(c) THEN c
    ELSE [Send(c, "unsubscribe", <<>>) EXCEPT !.subscriptionOptions = <<>>]

\* exportData, to the 'export' it sends
ExportData(c) ==
    IF ~SocketConnected(c) THEN Throw(c, "Client not connected")
    ELSE Send(c, "export", <<>>)

\* the delay of scheduleReconnect
ReconnectDelay(count) == Min(INITIAL_DELAY * Pow(FACTOR, count), MAX_DELAY)

\* scheduleReconnect
ScheduleReconnect(c) ==
    IF c.retryTimeout # <<>> \/ c.retryCount >= c.config.maxAttempts
    THEN IF c.retryCount >= c.config.maxAttempts
         THEN Emit(c, "reconnect_failed", <<>>)
         ELSE c
    ELSE [c EXCEPT !.retryTimeout = <<[delay |-> ReconnectDelay(c.retryCount)]>>]

\* the callback of the timer of scheduleReconnect
ReconnectTimer(c) ==
    LET delay == c.retryTimeout[1].delay
        counted == [c EXCEPT !.retryTimeout = <<>>,
                             !.retryCount = @ + 1,
                             !.attempts = @ + 1]
    IN Connect(Emit(counted, "reconnecting", [attempt |-> counted.retryCount, delay |-> delay]))

\* handleRateLimit
HandleRateLimit(c) ==
    LET backoffDelay == Min(RATE_LIMIT_DELAY * Pow(2, c.retryCount), RATE_LIMIT_MAX_DELAY)
        limited == [Emit(c, "rate_limited", [delay |-> backoffDelay])
                      EXCEPT !.rateDelays = Append(@, backoffDelay)]
    IN IF limited.subscriptionOptions # <<>>
       THEN [limited EXCEPT !.subscriptionOptions[1].interval = Min(@ * 2, MAX_INTERVAL)]
       ELSE limited

\* the 'connect' listener
OnConnect(c) ==
    LET connected == Emit([c EXCEPT !.retryCount = 0, !.attempts = 0, !.dropped = FALSE],
                          "connected", <<>>)
    IN IF connected.subscriptionOptions # <<>>
       THEN Subscribe(connected, connected.subscriptionOptions[1])
       ELSE connected

\* the 'disconnect' listener
OnSocketDisconnect(c) ==
    LET disconnected == Emit(c, "disconnected", <<>>)
    IN IF c.config.autoReconnect THEN ScheduleReconnect(disconnected) ELSE disconnected

\* the 'error' listener
OnError(c, rateLimit) ==
    LET emitted == Emit(c, "error", <<>>)
    IN IF Thrown(emitted) THEN emitted
       ELSE IF rateLimit THEN HandleRateLimit(emitted)
       ELSE emitted

\* the 'analytics_update' listener
OnAnalyticsUpdate(c) == Emit(c, "update", <<>>)

\* the 'connect_error' listener
OnConnectError(c) ==
    LET emitted == Emit(c, "error", <<>>)
    IN IF Thrown(emitted) THEN emitted
       ELSE IF c.config.autoReconnect THEN ScheduleReconnect(emitted)
       ELSE emitted

\* disconnect.  socket.disconnect() closes the socket and, when it was
\* connected, emits its 'disconnect' to the listeners before it returns
Disconnect(c) ==
    LET cleared == [c EXCEPT !.retryTimeout = <<>>]
        closed ==
            IF cleared.socket = Null THEN cleared
            ELSE LET shut == [cleared EXCEPT !.ioSockets[cleared.socket] = "closed"]
                     told == IF SocketConnected(cleared) THEN OnSocketDisconnect(shut)
                             ELSE shut
                 IN [told EXCEPT !.socket = Null]
    IN [closed EXCEPT !.retryCount = 0, !.attempts = 0, !.dropped = FALSE]

\* the client's fields as a record, with nothing emitted yet
Client ==
    [socket |-> socket, ioSockets |-> ioSockets, retryCount |-> retryCount,
     retryTimeout |-> retryTimeout, subscriptionOptions |-> subscriptionOptions,
     config |-> clientConfig, out |-> <<>>, rateDelays |-> rateDelays,
     attempts |-> attempts, dropped |-> dropped]

\* the client's fields become those of c
Becomes(c) ==
    /\ socket' = c.socket
    /\ ioSockets' = c.ioSockets
    /\ retryCount' = c.retryCount
    /\ retryTimeout' = c.retryTimeout
    /\ subscriptionOptions' = c.subscriptionOptions
    /\ clientConfig' = c.config
    /\ clientOut' = c.out
    /\ rateDelays' = c.rateDelays
    /\ attempts' = c.attempts
    /\ dropped' = c.dropped

\* the constructor of AnalyticsClient
InitClient ==
    /\ socket = Null
    /\ ioSockets = <<>>
    /\ retryCount = 0
    /\ retryTimeout = <<>>
    /\ subscriptionOptions = <<>>
    /\ clientConfig = [maxAttempts |-> MaxAttempts, autoReconnect |-> TRUE,
                       listensError |-> TRUE]
    /\ clientOut = <<>>
    /\ rateDelays = <<>>
    /\ attempts = 0
    /\ dropped = FALSE

\* ------------------------------------------------------ signaling server
\* The state of server.ts is a record s; out collects what the step under
\* way emits.  Socket ids are numbered in the order of connection, which is
\* the order of io.sockets.sockets.
MaxServerSockets == 3
ServerIds == 1 .. MaxServerSockets
NoId == 0
Interests == {"musica", "viajes"}

\* queue.indexOf(id) > -1, queue.includes(id)
Includes(queue, id) == \E i \in DOMAIN queue : queue[i] = id

\* queue.splice(queue.indexOf(id), 1) where id is in the queue
Splice(queue, id) ==
    LET index == CHOOSE i \in DOMAIN queue :
                    queue[i] = id /\ \A j \in 1 .. i - 1 : queue[j] # id
    IN IF Includes(queue, id)
       THEN [i \in 1 .. Len(queue) - 1 |-> IF i < index THEN queue[i] ELSE queue[i + 1]]
       ELSE queue

\* queue.find(id => id !== socketId), NoId for undefined
FindOther(queue, socketId) ==
    LET others == SelectSeq(queue, LAMBDA id : id # socketId)
    IN IF others = <<>> THEN NoId ELSE others[1]

\* io.to(to).emit(name, data)
ServerEmit(s, to, name, data) ==
    [s EXCEPT !.out = Append(@, [to |-> to, name |-> name, data |-> data])]

\* cleanUpUserFromQueues
CleanUpUserFromQueues(s, socketId) ==
    [s EXCEPT !.genericQueue = Splice(@, socketId),
              !.interestQueues = [interest \in Interests |-> Splice(@[interest], socketId)]]

\* endChat
EndChat(s, socketId) ==
    LET partnerId == s.userPairs[socketId]
        told == IF partnerId # NoId
                THEN [ServerEmit(s, partnerId, "partner_disconnected", NoId)
                        EXCEPT !.userPairs[partnerId] = NoId]
                ELSE s
    IN [told EXCEPT !.userPairs[socketId] = NoId]

\* cleanUpUserFromAllQueues
CleanUpUserFromAllQueues(s, socketId) ==
    [s EXCEPT !.userPairs[socketId] = NoId,
              !.interestQueues = [interest \in Interests |-> Splice(@[interest], socketId)],
              !.genericQueue = Splice(@, socketId),
              !.userInterests[socketId] = <<>>]

\* Array.from(io.sockets.sockets.keys()) from id on, as a sequence
RECURSIVE SocketsFrom(_, _)
SocketsFrom(s, id) ==
    IF id > MaxServerSockets THEN <<>>
    ELSE (IF id \in s.serverSockets THEN <<id>> ELSE <<>>) \o SocketsFrom(s, id + 1)

\* userPairs.set of both, as findPartnerFor and checkAutoPairing do
SetPair(s, a, b) == [s EXCEPT !.userPairs = [@ EXCEPT ![a] = b, ![b] = a]]

\* the loop of findPartnerFor over the interests from index i: the partner
\* found, taken out of the queue it was found in
RECURSIVE InterestPartner(_, _, _, _)
InterestPartner(s, socketId, interests, i) ==
    IF i > Len(interests) THEN [s |-> s, partnerId |-> NoId]
    ELSE LET queue == s.interestQueues[interests[i]]
             partnerId == FindOther(queue, socketId)
         IN IF partnerId # NoId
            THEN [s |-> [s EXCEPT !.interestQueues[interests[i]] = Splice(@, partnerId)],
                  partnerId |-> partnerId]
            ELSE InterestPartner(s, socketId, interests, i + 1)

\* interests.forEach of findPartnerFor: socketId waits in the queue of each
RECURSIVE PushInterests(_, _, _, _)
PushInterests(s, socketId, interests, i) ==
    IF i > Len(interests) THEN s
    ELSE LET queue == s.interestQueues[interests[i]]
             pushed == IF Includes(queue, socketId) THEN s
                       ELSE [s EXCEPT !.interestQueues[interests[i]] = Append(@, socketId)]
         IN PushInterests(pushed, socketId, interests, i + 1)

\* findPartnerFor up to its await, where it leaves a call in pairing, or to
\* its end when socketId has to wait
FindPartnerFor(s, socketId) ==
    LET interests == s.userInterests[socketId]
        totalDevices == Cardinality(s.deviceSet)
        unpaired == SelectSeq(SocketsFrom(s, 1),
                              LAMBDA id : id # socketId /\ s.userPairs[id] = NoId)
        autoPartner == IF totalDevices = 2 /\ unpaired # <<>> THEN unpaired[1] ELSE NoId
        byInterest == InterestPartner(s, socketId, interests, 1)
        genericPartner == IF byInterest.partnerId = NoId
                          THEN FindOther(byInterest.s.genericQueue, socketId)
                          ELSE NoId
        partnerId == IF byInterest.partnerId # NoId THEN byInterest.partnerId
                     ELSE genericPartner
        taken == IF genericPartner # NoId
                 THEN [byInterest.s EXCEPT !.genericQueue = Splice(@, genericPartner)]
                 ELSE byInterest.s
    IN IF autoPartner # NoId
       THEN [CleanUpUserFromQueues(
                CleanUpUserFromQueues(SetPair(s, socketId, autoPartner), autoPartner),
                socketId)
               EXCEPT !.pairing = @ \cup {[socketId |-> socketId, partnerId |-> autoPartner]}]
       ELSE IF partnerId # NoId
       THEN [CleanUpUserFromQueues(SetPair(taken, socketId, partnerId), partnerId)
               EXCEPT !.pairing = @ \cup {[socketId |-> socketId, partnerId |-> partnerId]}]
       ELSE LET cleaned == CleanUpUserFromQueues(taken, socketId)
            IN IF Len(interests) > 0
               THEN PushInterests(cleaned, socketId, interests, 1)
               ELSE IF Includes(cleaned.genericQueue, socketId) THEN cleaned
               ELSE [cleaned EXCEPT !.genericQueue = Append(@, socketId)]

\* checkAutoPairing
CheckAutoPairing(s) ==
    LET unpairedUsers == SelectSeq(SocketsFrom(s, 1), LAMBDA id : s.userPairs[id] = NoId)
    IN IF Cardinality(s.deviceSet) = 2 /\ Len(unpairedUsers) = 2
       THEN LET user1 == unpairedUsers[1]
                user2 == unpairedUsers[2]
                cleaned == CleanUpUserFromQueues(
                              CleanUpUserFromQueues(SetPair(s, user1, user2), user1), user2)
            IN ServerEmit(ServerEmit(cleaned, user1, "partner", user2),
                          user2, "partner", user1)
       ELSE s

\* setTimeout(checkAutoPairing, 1000)
SetAutoPairingTimer(s) == [s EXCEPT !.autoPairingTimers = @ + 1]

\* the 'find_partner' handler up to the await of findPartnerFor; the handler
\* goes on at once when findPartnerFor had nothing to await
OnFindPartner(s, socketId, interests, deviceId) ==
    LET known == [s EXCEPT !.socketToDeviceId[socketId] = deviceId,
                           !.deviceSet = @ \cup {deviceId},
                           !.userInterests[socketId] = interests]
        found == FindPartnerFor(known, socketId)
    IN IF found.pairing = known.pairing THEN SetAutoPairingTimer(found) ELSE found

\* findPartnerFor after its await, and the rest of the 'find_partner' handler
PartnerFound(s, call) ==
    SetAutoPairingTimer(
        ServerEmit(ServerEmit([s EXCEPT !.pairing = @ \ {call}],
                              call.socketId, "partner", call.partnerId),
                   call.partnerId, "partner", call.socketId))

\* User.findOne rejects: findPartnerFor and the handler end there
PartnerLookupFails(s, call) == [s EXCEPT !.pairing = @ \ {call}]

\* the 'end_chat' handler
OnEndChat(s, socketId) ==
    SetAutoPairingTimer(CleanUpUserFromAllQueues(EndChat(s, socketId), socketId))

\* the 'disconnect' handler, of a socket that io.sockets.sockets has lost
OnServerDisconnect(s, socketId) ==
    LET gone == [s EXCEPT !.serverSockets = @ \ {socketId}]
        cleaned == CleanUpUserFromAllQueues(EndChat(gone, socketId), socketId)
        deviceId == cleaned.socketToDeviceId[socketId]
        forgotten == IF deviceId # ""
                     THEN [cleaned EXCEPT !.deviceSet = @ \ {deviceId},
                                          !.socketToDeviceId[socketId] = ""]
                     ELSE cleaned
    IN SetAutoPairingTimer(forgotten)

\* the server's state as a record, with nothing emitted yet
Server ==
    [serverSockets |-> serverSockets, userPairs |-> userPairs,
     userInterests |-> userInterests, interestQueues |-> interestQueues,
     genericQueue |-> genericQueue, deviceSet |-> deviceSet,
     socketToDeviceId |-> socketToDeviceId, pairing |-> pairing,
     autoPairingTimers |-> autoPairingTimers, out |-> <<>>]

\* the server's state becomes s
ServerBecomes(s) ==
    /\ serverSockets' = s.serverSockets
    /\ userPairs' = s.userPairs
    /\ userInterests' = s.userInterests
    /\ interestQueues' = s.interestQueues
    /\ genericQueue' = s.genericQueue
    /\ deviceSet' = s.deviceSet
    /\ socketToDeviceId' = s.socketToDeviceId
    /\ pairing' = s.pairing
    /\ autoPairingTimers' = s.autoPairingTimers
    /\ serverOut' = s.out

\* server.ts as loaded
InitServer ==
    /\ serverSockets = {}
    /\ userPairs = [id \in ServerIds |-> NoId]
    /\ userInterests = [id \in ServerIds |-> <<>>]
    /\ interestQueues = [interest \in Interests |-> <<>>]
    /\ genericQueue = <<>>
    /\ deviceSet = {}
    /\ socketToDeviceId = [id \in ServerIds |-> ""]
    /\ pairing = {}
    /\ autoPairingTimers = 0
    /\ serverOut = <<>>
    /\ served = 0
    /\ connections = 0

\* ------------------------------------------- Accuracy Tracker: startup load
\* The constructor calls loadMetrics, which tests fs.existsSync at once and,
\* if the file is there, awaits its readFile: the tracker is in use while
\* the read is pending.

\* loadMetrics up to its await: the read is pending if the file exists
LoadMetrics(file) == IF file = <<>> THEN "done" ELSE "reading"

\* loadMetrics after its await: this.metrics = JSON.parse(data); a file that
\* does not parse is logged and the records are left as they are
LoadMetricsDone(ms, file) ==
    IF JsonParses(file) THEN file.data ELSE ms

\* no file: the constructor has returned with nothing to read
InitLoader ==
    /\ metricsFile = <<>>
    /\ metricsLoad = LoadMetrics(metricsFile)

\* ------------------------------------------- specification: history cap
\* The n-th alert the source raises carries value n.
Record ==
    /\ recorded < MaxRecords
    /\ recorded' = recorded + 1
    /\ NotifyAlert(Alert("cpu", recorded', now, "warning"))
    /\ UNCHANGED <<now, minerVars, batcherVars, schedulerVars, auxVars>>

InitStore ==
    /\ now = 0
    /\ InitNotifier
    /\ InitTracker
    /\ InitMiner
    /\ InitBatcher
    /\ InitScheduler
    /\ InitChannels
    /\ InitReport
    /\ InitLimiter
    /\ InitClient
    /\ InitServer
    /\ InitLoader

NextStore == Record

SpecStore == InitStore /\ [][NextStore]_vars

\* C3: the history holds at most MAX_HISTORY entries and is exactly the most
\* recent min(n, MAX_HISTORY) recorded alerts, in arrival order.
HistoryIsMostRecent ==
    /\ Len(alertHistory) <= 1000
    /\ Len(alertHistory) = (IF recorded <= 1000 THEN recorded ELSE 1000)
    /\ \A i \in DOMAIN alertHistory :
          alertHistory[i].value = recorded - Len(alertHistory) + i

HistoryEvicted ==
    /\ recorded = 1002
    /\ Len(alertHistory) = 1000
    /\ alertHistory[1].value = 3

\* --------------------------------------- specification: accuracy tracker
\* The public operations of the tracker, called with predictions and alerts
\* around one predicted time.
TrackerTime == 3600
TrackerIds == {<<"pattern", "cpu", "mem", "60">>, <<"pattern", "cpu">>}
TrackerPredictions ==
    {[id |-> id, prediction |-> [nextExpected |-> TrackerTime, confidence |-> c]] :
        id \in TrackerIds, c \in {70, 80}}
TrackerOffsets == {0 - 1801, 0 - 1800, 0 - 300, 0, 301, 1800, 1801}
TrackerAlerts == {Alert("cpu", 1, TrackerTime + d, "warning") : d \in TrackerOffsets}
TrackerAlertLists ==
    {<<a>> : a \in TrackerAlerts} \cup {<<a, b>> : a \in TrackerAlerts, b \in TrackerAlerts}

TrackerRecord ==
    /\ Len(metrics) < MaxMetrics
    /\ \E p \in TrackerPredictions : metrics' = RecordPrediction(metrics, p)
    /\ UNCHANGED <<now, alertHistory, recorded, minerVars, batcherVars, schedulerVars, auxVars>>

TrackerVerify ==
    /\ \E id \in TrackerIds, alerts \in TrackerAlertLists :
          metrics' = VerifyPrediction(metrics, id, alerts)
    /\ UNCHANGED <<now, alertHistory, recorded, minerVars, batcherVars, schedulerVars, auxVars>>

InitTrackerSpec ==
    /\ now = 0
    /\ InitNotifier
    /\ InitTracker
    /\ InitMiner
    /\ InitBatcher
    /\ InitScheduler
    /\ InitChannels
    /\ InitReport
    /\ InitLimiter
    /\ InitClient
    /\ InitServer
    /\ InitLoader

NextTracker == TrackerRecord \/ TrackerVerify

SpecTracker == InitTrackerSpec /\ [][NextTracker]_vars

\* C6: once a record is verified, no later verifyPrediction call changes its
\* actualTime, accuracy or verified flag.
VerifiedIsFinal ==
    [][TrackerVerify =>
         \A i \in DOMAIN metrics :
            metrics[i].verified => (i \in DOMAIN metrics' /\ metrics'[i] = metrics[i])]_vars

\* two records of one pattern and one predicted time verified by different
\* calls: the later call offered its alert, inside the window, to the record
\* verified first
VerifiedTwiceOffered ==
    \E i, j \in DOMAIN metrics :
       /\ metrics[i].verified /\ metrics[j].verified
       /\ metrics[i].patternId = metrics[j].patternId
       /\ metrics[i].predictedTime = metrics[j].predictedTime
       /\ metrics[i].actualTime = TrackerTime + 1800
       /\ metrics[j].actualTime = TrackerTime

\* ------------------------------------------------ specification: miner
\* Archived batch files appear as the Batcher writes them; the analysis timer
\* fires every hour.  A batch is written 300 s after it was opened and holds
\* alerts at the offsets of one of the shapes below from its opening.
MinerShapes ==
    { << <<"cpu", 0, "warning">>, <<"mem", 60, "warning">> >>,
      << <<"mem", 0, "warning">>, <<"cpu", 60, "critical">> >>,
      << <<"cpu", 0, "warning">>, <<"mem", 60, "warning">>,
         <<"cpu", 400, "warning">>, <<"cpu", 400, "warning">> >>,
      << <<"cpu", 0, "warning">> >> }

ShapeAlerts(shape, base) ==
    [i \in DOMAIN shape |-> Alert(shape[i][1], 1, base + shape[i][2], shape[i][3])]

MinerArchive ==
    /\ Cardinality(DOMAIN archive) < MaxArchived
    /\ now \notin DOMAIN archive
    /\ \E shape \in MinerShapes :
          archive' = [id \in DOMAIN archive \cup {now} |->
                        IF id = now
                        THEN [id |-> now, alerts |-> ShapeAlerts(shape, now),
                              correlations |-> <<>>, timestamp |-> now,
                              processed |-> FALSE]
                        ELSE archive[id]]
    /\ UNCHANGED <<now, storeVars, patterns, patternsFile, nextAnalysis, batcherVars, schedulerVars, auxVars>>

MinerAnalyze ==
    /\ \E order \in Orders(DOMAIN archive), saved \in BOOLEAN :
          AnalyzeArchivedBatches(order, saved)
    /\ UNCHANGED <<now, storeVars, archive, batcherVars, schedulerVars, auxVars>>

MinerTick ==
    /\ now < nextAnalysis
    /\ nextAnalysis <= MaxCycles * ANALYSIS_INTERVAL
    /\ now' = nextAnalysis
    /\ UNCHANGED <<storeVars, minerVars, batcherVars, schedulerVars, auxVars>>

InitMinerSpec ==
    /\ now = 0
    /\ InitNotifier
    /\ InitTracker
    /\ InitMiner
    /\ InitBatcher
    /\ InitScheduler
    /\ InitChannels
    /\ InitReport
    /\ InitLimiter
    /\ InitClient
    /\ InitServer
    /\ InitLoader

NextMiner == MinerArchive \/ MinerAnalyze \/ MinerTick

SpecMiner == InitMinerSpec /\ [][NextMiner]_vars

\* the groups of the archived batches that give pattern id
RECURSIVE GroupsWithId(_, _)
GroupsWithId(ids, pid) ==
    IF ids = {} THEN 0
    ELSE LET b == CHOOSE x \in ids : TRUE
             groups == GroupAlertsByTimeWindow(archive[b].alerts)
         IN Cardinality({k \in DOMAIN groups : CreatePattern(groups[k]).id = pid})
            + GroupsWithId(ids \ {b}, pid)

\* C1: each archived batch contributes to a pattern's occurrences at most
\* once across all mining cycles: a pattern never has more occurrences than
\* the archive holds groups of its id.
NoDoubleCount ==
    \A pid \in DOMAIN patterns :
       patterns[pid].occurrences <= GroupsWithId(DOMAIN archive, pid)

\* a batch whose alerts are one cluster of 2 alerts within 5 minutes
TwoAlertCluster(b) ==
    /\ Len(b.alerts) = 2
    /\ Abs(b.alerts[2].timestamp - b.alerts[1].timestamp) <= 300

\* two such batches with identical clusters: the same types, in the order of
\* their timestamps, and the same span
IdenticalClusters(a, b) ==
    LET ordered(x) == IF x.alerts[1].timestamp <= x.alerts[2].timestamp
                      THEN <<x.alerts[1], x.alerts[2]>>
                      ELSE <<x.alerts[2], x.alerts[1]>>
    IN /\ ordered(a)[1].type = ordered(b)[1].type
       /\ ordered(a)[2].type = ordered(b)[2].type
       /\ ordered(a)[2].timestamp - ordered(a)[1].timestamp
             = ordered(b)[2].timestamp - ordered(b)[1].timestamp

PredictionIffThree ==
    \A pid \in DOMAIN patterns :
       (patterns[pid].prediction # <<>>) <=> (patterns[pid].occurrences >= 3)

PredictionAtThree ==
    /\ \E pid \in DOMAIN patterns :
          patterns[pid].occurrences = 3 /\ patterns[pid].prediction # <<>>
    /\ \E pid \in DOMAIN patterns :
          patterns[pid].occurrences = 2 /\ patterns[pid].prediction = <<>>

\* C8: a prediction's confidence is min(0.5 + 0.1 x occurrences, 0.9); over
\* the merges of a pattern it never decreases and never exceeds 0.9.
ConfidenceFormula ==
    [][\A pid \in DOMAIN patterns' :
          patterns'[pid].prediction # <<>> =>
             LET c == patterns'[pid].prediction[1].confidence
                 k == patterns'[pid].occurrences
             IN /\ c = (IF 50 + 10 * k <= 90 THEN 50 + 10 * k ELSE 90)
                /\ c <= 90
                /\ (pid \in DOMAIN patterns /\ patterns[pid].prediction # <<>>)
                      => c >= patterns[pid].prediction[1].confidence]_vars

ConfidenceCapped ==
    \E pid \in DOMAIN patterns :
       /\ patterns[pid].occurrences >= 5
       /\ patterns[pid].prediction # <<>>
       /\ patterns[pid].prediction[1].confidence = 90

\* ----------------------------------------------- specification: batcher
\* The window timer and the cleanup timer fire when due; a file write ends,
\* well or badly, before the next timer is due.
BatcherAlerts == {Alert("cpu", 1, now, "warning")}
WriteOutcomes == IF now <= MaxFailTime THEN BOOLEAN ELSE {TRUE}

BatcherAdd ==
    /\ now <= MaxAlertTime
    /\ currentBatchId \in DOMAIN batches
    /\ Len(batches[currentBatchId].alerts) < MaxBatchAlerts
    /\ \E alert \in BatcherAlerts : AddAlert(alert)
    /\ UNCHANGED <<now, storeVars, minerVars, schedulerVars, auxVars>>

BatcherRecord ==
    /\ now <= MaxAlertTime
    /\ Len(alertHistory) < MaxBatchAlerts
    /\ \E alert \in BatcherAlerts : NotifyAlert(alert)
    /\ UNCHANGED <<now, recorded, minerVars, batcherVars, schedulerVars, auxVars>>

BatcherProcess ==
    /\ ProcessBatch
    /\ UNCHANGED <<now, storeVars, minerVars, schedulerVars, auxVars>>

BatcherArchiveDone ==
    /\ \E w \in writes, ok \in WriteOutcomes : ArchiveDone(w, ok)
    /\ UNCHANGED <<now, storeVars, patterns, patternsFile, nextAnalysis, schedulerVars, auxVars>>

BatcherCleanup ==
    /\ CleanupOldBatches
    /\ UNCHANGED <<now, storeVars, minerVars, schedulerVars, auxVars>>

BatcherCleanupDone ==
    /\ \E ok \in WriteOutcomes : CleanupDone(ok)
    /\ UNCHANGED <<now, storeVars, patterns, patternsFile, nextAnalysis, schedulerVars, auxVars>>

NextDue(times) == CHOOSE t \in times : \A u \in times : t <= u

BatcherTick ==
    /\ writes = {} /\ sweep = <<>>
    /\ now \notin batchTimers /\ now # nextCleanup
    /\ now' = NextDue(batchTimers \cup {nextCleanup})
    /\ now' <= MaxBatcherTime
    /\ UNCHANGED <<storeVars, minerVars, batcherVars, schedulerVars, auxVars>>

InitBatcherSpec ==
    /\ now = 0
    /\ InitNotifier
    /\ InitTracker
    /\ InitMiner
    /\ InitBatcher
    /\ InitScheduler
    /\ InitChannels
    /\ InitReport
    /\ InitLimiter
    /\ InitClient
    /\ InitServer
    /\ InitLoader

NextBatcher ==
    \/ BatcherAdd \/ BatcherRecord \/ BatcherProcess \/ BatcherArchiveDone
    \/ BatcherCleanup \/ BatcherCleanupDone \/ BatcherTick

SpecBatcher == InitBatcherSpec /\ [][NextBatcher]_vars

CurrentBatchOpen(bs, cur) == cur \in DOMAIN bs /\ ~bs[cur].processed

\* C4: between operations the current batch id refers to a batch that is in
\* memory and not yet processed, and whenever the write of a window close
\* ends, a new current batch is opened.
AlwaysOneOpenBatch ==
    [][/\ CurrentBatchOpen(batches', currentBatchId')
       /\ (\E w \in writes : w \notin writes' /\ w.id = currentBatchId)
             => currentBatchId' # currentBatchId]_vars

\* C5: a failed archive write at a window close is not fatal to rotation: as
\* long as the current batch is open, a close of it is scheduled (its timer
\* is pending) or under way (its write is in flight).
RotationStaysScheduled ==
    CurrentBatchOpen(batches, currentBatchId) =>
       \/ batchTimers # {}
       \/ \E w \in writes : w.id = currentBatchId

\* C10: every real alert recorded by the Alert Store is in a batch, in
\* memory, being written or archived.
RecordedAlertsAreBatched ==
    \A i \in DOMAIN alertHistory :
       alertHistory[i].type # PREDICTED =>
          \E held \in {batches[id] : id \in DOMAIN batches}
                      \cup {archive[id] : id \in DOMAIN archive}
                      \cup {w.data : w \in writes} :
             \E k \in DOMAIN held.alerts :
                /\ held.alerts[k].type = alertHistory[i].type
                /\ held.alerts[k].value = alertHistory[i].value

\* -------------------------------------------- specification: prediction
\* The Pattern Miner, the Prediction Scheduler, the Alert Store and the
\* Accuracy Tracker together.  The Batcher's archive files appear at the
\* times below, each holding cpu and mem alerts 60 s apart, the later one
\* stamped with the time of the write; real alerts are stamped with the time
\* they are recorded at.
PredictArchiveTimes == {3300, 10500}
PredictTypes == {"cpu", "mem"}

PredictArchive ==
    /\ now \in PredictArchiveTimes
    /\ (now - BATCH_WINDOW) \notin DOMAIN archive
    /\ archive' = MapPut(archive, now - BATCH_WINDOW,
                         [id |-> now - BATCH_WINDOW,
                          alerts |-> <<Alert("cpu", 1, now - 60, "warning"),
                                       Alert("mem", 1, now, "warning")>>,
                          correlations |-> <<>>,
                          timestamp |-> now - BATCH_WINDOW,
                          processed |-> FALSE])
    /\ UNCHANGED <<now, storeVars, patterns, patternsFile, nextAnalysis,
                   batcherVars, schedulerVars, auxVars>>

PredictAnalyze ==
    /\ \E order \in Orders(DOMAIN archive), saved \in BOOLEAN :
          AnalyzeArchivedBatches(order, saved)
    /\ UNCHANGED <<now, storeVars, archive, batcherVars, schedulerVars, auxVars>>

PredictCheck ==
    /\ CheckPredictions
    /\ UNCHANGED <<now, recorded, minerVars, batcherVars, auxVars>>

PredictDelivered ==
    /\ \E c \in DOMAIN cycles : DeliveryDone(c)
    /\ UNCHANGED <<now, recorded, minerVars, batcherVars, auxVars>>

RealAlerts(h) == {k \in DOMAIN h : h[k].type # PREDICTED}

PredictRecord ==
    /\ Cardinality(RealAlerts(alertHistory)) < MaxRealAlerts
    /\ \E type \in PredictTypes : NotifyAlert(Alert(type, 1, now, "warning"))
    /\ UNCHANGED <<now, recorded, minerVars, batcherVars, schedulerVars, auxVars>>

PredictTick ==
    /\ cycles = <<>>
    /\ now # nextAnalysis /\ now # nextCheckAt
    /\ now' = Min(nextAnalysis, nextCheckAt)
    /\ now' <= MaxPredictTime
    /\ UNCHANGED <<storeVars, minerVars, batcherVars, schedulerVars, auxVars>>

InitPredict ==
    /\ now = 0
    /\ InitNotifier
    /\ InitTracker
    /\ InitMiner
    /\ InitBatcher
    /\ InitScheduler
    /\ InitChannels
    /\ InitReport
    /\ InitLimiter
    /\ InitClient
    /\ InitServer
    /\ InitLoader

NextPredict ==
    \/ PredictArchive \/ PredictAnalyze \/ PredictCheck \/ PredictDelivered
    \/ PredictRecord \/ PredictTick

SpecPredict == InitPredict /\ [][NextPredict]_vars

\* the alert types named by a pattern id
IdTypes(pid) == {pid[x] : x \in 2..(Len(pid) - 1)}

\* the synthetic alerts recorded before entry k of the history
PredictedBefore(k) == {j \in 1..(k - 1) : alertHistory[j].type = PREDICTED}

\* C2: a prediction recorded by the Prediction Scheduler (the i-th record
\* goes with the i-th synthetic alert) is verified once a real alert of one
\* of its pattern's types, within 30 minutes of predictedTime, has been
\* recorded after it.
ScheduledPredictionVerified ==
    \A i \in DOMAIN metrics : \A k \in DOMAIN alertHistory :
       (/\ Cardinality(PredictedBefore(k)) >= i
        /\ alertHistory[k].type # PREDICTED
        /\ alertHistory[k].type \in IdTypes(metrics[i].patternId)
        /\ Abs(alertHistory[k].timestamp - metrics[i].predictedTime) <= 1800)
       => metrics[i].verified

\* ---------------------------------------------- specification: scenario
\* Twelve http_error_rate warnings, four a day 90 minutes apart at the same
\* time of day on three consecutive days, are added to the Batcher at their
\* times; the Batcher rotates and archives its batches, sweeps them daily,
\* and the Pattern Miner reads the archive every hour, its files listed in
\* ascending or in descending order.
ScenarioAlertTimes ==
    {ScenarioStart + d * 86400 + j * 5400 : d \in 0..2, j \in 0..3}

ScenarioLastAlert == CHOOSE t \in ScenarioAlertTimes : \A u \in ScenarioAlertTimes : u <= t

\* the alerts of the scenario not yet raised
ScenarioPending ==
    {t \in ScenarioAlertTimes :
        recorded <= Cardinality({u \in ScenarioAlertTimes : u < t})}

ScenarioIngest ==
    /\ now \in ScenarioPending
    /\ recorded' = recorded + 1
    /\ AddAlert(Alert("http_error_rate", recorded', now, "warning"))
    /\ UNCHANGED <<now, alertHistory, metrics, minerVars, schedulerVars, auxVars>>

Reverse(s) == [i \in 1..Len(s) |-> s[Len(s) + 1 - i]]

ScenarioAnalyze ==
    /\ \E order \in {AscendingSeq(DOMAIN archive), Reverse(AscendingSeq(DOMAIN archive))},
          saved \in BOOLEAN :
          AnalyzeArchivedBatches(order, saved)
    /\ UNCHANGED <<now, storeVars, archive, batcherVars, schedulerVars, auxVars>>

ScenarioDue == batchTimers \cup {nextCleanup, nextAnalysis} \cup ScenarioPending

ScenarioTick ==
    /\ writes = {} /\ sweep = <<>>
    /\ now \notin ScenarioDue
    /\ now' = NextDue(ScenarioDue)
    /\ now' <= MaxScenarioTime
    /\ UNCHANGED <<storeVars, minerVars, batcherVars, schedulerVars, auxVars>>

InitScenario ==
    /\ now = 0
    /\ InitNotifier
    /\ InitTracker
    /\ InitMiner
    /\ InitBatcher
    /\ InitScheduler
    /\ InitChannels
    /\ InitReport
    /\ InitLimiter
    /\ InitClient
    /\ InitServer
    /\ InitLoader

NextScenario ==
    \/ ScenarioIngest \/ BatcherProcess \/ BatcherArchiveDone
    \/ BatcherCleanup \/ BatcherCleanupDone \/ ScenarioAnalyze \/ ScenarioTick

SpecScenario == InitScenario /\ [][NextScenario]_vars

\* the twelve alerts have been added and three mining cycles have run since
\* the window of the last one closed
ScenarioMinedThrice ==
    /\ ScenarioPending = {}
    /\ nextAnalysis > ScenarioLastAlert + BATCH_WINDOW + 3 * ANALYSIS_INTERVAL

\* C9 as amended: with the twelve alerts of the scenario batched in 5-minute
\* windows the registry never holds a pattern, after three mining cycles or
\* after any number of them: alerts 90 minutes apart never share a group of
\* the Miner, and a group of one alert yields no pattern.
ScenarioRegistryEmpty == patterns = EmptyMap

\* every alert of the scenario was archived alone in its batch, and three
\* mining cycles have read the archive since
ScenarioArchivedAndMined ==
    /\ ScenarioMinedThrice
    /\ \A t \in ScenarioAlertTimes :
          \E id \in DOMAIN archive :
             /\ Len(archive[id].alerts) = 1
             /\ archive[id].alerts[1].timestamp = t

\* C9 as stated: after the three mining cycles the registry holds one
\* pattern, of 3 occurrences, with a prediction of confidence 0.8.
ScenarioPatternMined ==
    ScenarioMinedThrice =>
       \E id \in DOMAIN patterns :
          /\ DOMAIN patterns = {id}
          /\ patterns[id].occurrences = 3
          /\ patterns[id].prediction # <<>>
          /\ patterns[id].prediction[1].confidence = 80

\* ---------------------------------------------- specification: channels
\* The Alert Store with any set of channels configured: alerts are recorded
\* (a further one while the deliveries of an earlier one are pending), every
\* fetch comes to any response, and a call returns when its promises settle.
ChannelsRecord ==
    /\ recorded < MaxChannelRecords
    /\ recorded' = recorded + 1
    /\ NotifyAlertStart(Alert("cpu", recorded', now, "warning"))
    /\ UNCHANGED <<now, minerVars, batcherVars, schedulerVars, reportVars, limiterVars, clientVars, serverVars,
                   loaderVars>>

ChannelsRespond ==
    /\ \E k \in DOMAIN calls, c \in ChannelNames, response \in Responses :
          ChannelResponse(k, c, response)
    /\ UNCHANGED <<now, storeVars, minerVars, batcherVars, schedulerVars, reportVars,
                   limiterVars, clientVars, serverVars,
                   loaderVars>>

ChannelsSettled ==
    /\ \E k \in DOMAIN calls : NotifyAlertSettled(k)
    /\ UNCHANGED <<now, storeVars, minerVars, batcherVars, schedulerVars, reportVars,
                   limiterVars, clientVars, serverVars,
                   loaderVars>>

InitChannelsSpec ==
    /\ now = 0
    /\ InitNotifier
    /\ InitTracker
    /\ InitMiner
    /\ InitBatcher
    /\ InitScheduler
    /\ \E env \in SUBSET ChannelNames : channels = InitializeChannels(env)
    /\ calls = <<>>
    /\ invoked = [c \in ChannelNames |-> 0]
    /\ completed = <<>>
    /\ InitReport
    /\ InitLimiter
    /\ InitClient
    /\ InitServer
    /\ InitLoader

NextChannels == ChannelsRecord \/ ChannelsRespond \/ ChannelsSettled

SpecChannels == InitChannelsSpec /\ [][NextChannels]_vars

\* C11: whatever the deliveries come to, every call of record that has
\* settled returned without raising and every channel's promise was
\* fulfilled; notify has been invoked on every enabled channel once per
\* alert recorded and on no other; and the history holds every alert
\* recorded, in order, whatever the deliveries came to.
DeliveryFailuresContained ==
    /\ \A i \in DOMAIN completed : completed[i].result = "fulfilled"
    /\ \A k \in DOMAIN calls : \A c \in DOMAIN calls[k].outcomes :
          calls[k].outcomes[c] \in {"pending", "fulfilled"}
    /\ \A c \in ChannelNames :
          invoked[c] = IF c \in EnabledChannels(channels) THEN recorded ELSE 0
    /\ \A k \in DOMAIN calls : DOMAIN calls[k].outcomes = EnabledChannels(channels)
    /\ Len(alertHistory) = recorded
    /\ \A i \in DOMAIN alertHistory : alertHistory[i].value = i
    /\ Len(calls) + Len(completed) = recorded

\* a call has returned with one channel's delivery failed and another's
\* succeeded, while a later call's deliveries are still failing
DeliveryFailedAndReturned ==
    /\ \E i \in DOMAIN completed :
          /\ DOMAIN completed[i].responses = ChannelNames
          /\ completed[i].responses["slack"] = "network_error"
          /\ completed[i].responses["webhook"] = "ok"
    /\ \E k \in DOMAIN calls : \E c \in DOMAIN calls[k].responses :
          calls[k].responses[c] = "http_error"

\* ------------------------------------------ specification: verification
\* Predictions are recorded for the ids a recorded alert can name, and
\* alerts of every kind of type (a real one, the empty one, the synthetic
\* one) are recorded, stamped at or beyond the tolerance of the predictions.
VerifyTypes == {"cpu", "", PREDICTED}
VerifyIds == {<<"pattern", t>> : t \in VerifyTypes}
VerifyAlerts ==
    {Alert(t, 1, TrackerTime + d, "warning") : t \in VerifyTypes, d \in {0, 1801}}

VerifyRecord ==
    /\ Len(metrics) < MaxVerifyRecords
    /\ \E id \in VerifyIds :
          metrics' = RecordPrediction(metrics,
                        [id |-> id,
                         prediction |-> [nextExpected |-> TrackerTime, confidence |-> 80]])
    /\ UNCHANGED <<now, alertHistory, recorded, minerVars, batcherVars, schedulerVars,
                   auxVars>>

VerifyNotify ==
    /\ recorded < MaxVerifyAlerts
    /\ recorded' = recorded + 1
    /\ \E alert \in VerifyAlerts : NotifyAlertStart(alert)
    /\ UNCHANGED <<now, minerVars, batcherVars, schedulerVars, reportVars, limiterVars, clientVars, serverVars,
                   loaderVars>>

VerifySettled ==
    /\ \E k \in DOMAIN calls : NotifyAlertSettled(k)
    /\ UNCHANGED <<now, storeVars, minerVars, batcherVars, schedulerVars, reportVars,
                   limiterVars, clientVars, serverVars,
                   loaderVars>>

InitVerify ==
    /\ now = 0
    /\ InitNotifier
    /\ InitTracker
    /\ InitMiner
    /\ InitBatcher
    /\ InitScheduler
    /\ InitChannels
    /\ InitReport
    /\ InitLimiter
    /\ InitClient
    /\ InitServer
    /\ InitLoader

NextVerify == VerifyRecord \/ VerifyNotify \/ VerifySettled

SpecVerify == InitVerify /\ [][NextVerify]_vars

\* a step of record: a call is added, holding the alert as it was passed
RecordedStep == Len(calls') = Len(calls) + 1

\* C12 as stated: record with the synthetic type leaves the accuracy records
\* as they are, and record with any other type verifies the pending
\* predictions of pattern-{alert.type} against the alert passed.
VerifiesEveryOtherType ==
    [][RecordedStep =>
         LET alert == calls'[Len(calls')].alert IN
         metrics' = IF alert.type = PREDICTED THEN metrics
                    ELSE VerifyPrediction(metrics, <<"pattern", alert.type>>, <<alert>>)]_vars

\* C12 as amended: record with the synthetic type or with the empty type
\* leaves the accuracy records as they are, and record with any other type
\* verifies the pending predictions of pattern-{alert.type} against the
\* alert passed.
VerifiesEveryNamedType ==
    [][RecordedStep =>
         LET alert == calls'[Len(calls')].alert IN
         metrics' = IF alert.type \in {PREDICTED, ""} THEN metrics
                    ELSE VerifyPrediction(metrics, <<"pattern", alert.type>>, <<alert>>)]_vars

\* a real alert was recorded at the predicted time of a prediction of its
\* id, which is verified, and then a synthetic alert or one of the empty type
\* at the predicted time of a pending prediction of its id, which stays
\* pending
VerifiedByNamedTypeOnly ==
    \E k \in DOMAIN calls : \E i \in DOMAIN metrics :
       /\ metrics[i].patternId = <<"pattern", calls[k].alert.type>>
       /\ calls[k].alert.timestamp = metrics[i].predictedTime
       /\ k = Len(calls) /\ Len(calls) = MaxVerifyAlerts
       /\ calls[1].alert.type = "cpu" /\ calls[1].alert.timestamp = TrackerTime
       /\ \E j \in DOMAIN metrics :
             metrics[j].patternId = <<"pattern", "cpu">> /\ metrics[j].verified
       /\ calls[k].alert.type \in {PREDICTED, ""}
       /\ ~metrics[i].verified

\* --------------------------------------------- specification: accuracy
\* Predictions of one confidence are recorded and verified against lists of
\* one or two alerts at, within and beyond the tolerance of predictedTime.
AccuracyPredictions ==
    {[id |-> id, prediction |-> [nextExpected |-> TrackerTime, confidence |-> 80]] :
        id \in TrackerIds}

AccuracyRecord ==
    /\ Len(metrics) < MaxAccuracyRecords
    /\ \E p \in AccuracyPredictions : metrics' = RecordPrediction(metrics, p)
    /\ UNCHANGED <<now, alertHistory, recorded, minerVars, batcherVars, schedulerVars,
                   auxVars>>

AccuracyVerify ==
    /\ \E id \in TrackerIds, alerts \in TrackerAlertLists :
          metrics' = VerifyPrediction(metrics, id, alerts)
    /\ UNCHANGED <<now, alertHistory, recorded, minerVars, batcherVars, schedulerVars,
                   auxVars>>

InitAccuracy ==
    /\ now = 0
    /\ InitNotifier
    /\ InitTracker
    /\ InitMiner
    /\ InitBatcher
    /\ InitScheduler
    /\ InitChannels
    /\ InitReport
    /\ InitLimiter
    /\ InitClient
    /\ InitServer
    /\ InitLoader

NextAccuracy == AccuracyRecord \/ AccuracyVerify

SpecAccuracy == InitAccuracy /\ [][NextAccuracy]_vars

\* C13: a record that verifyPrediction verifies gets the timestamp of an
\* alert within 30 minutes of predictedTime and accuracy 1 (1500/1500) when
\* that is within 5 minutes, 0 at exactly 30 minutes, and 1 less the part of
\* the 25 minutes between that the difference has covered otherwise; a
\* pending record stays without actualTime and accuracy, and it stays
\* pending when no candidate is within 30 minutes of its predictedTime.
AccuracyByDistance ==
    [][\A id \in TrackerIds, alerts \in TrackerAlertLists :
          metrics' = VerifyPrediction(metrics, id, alerts) =>
             \A i \in DOMAIN metrics :
                LET m == metrics'[i]
                    d == Abs(m.actualTime - m.predictedTime)
                    near == \E k \in DOMAIN alerts :
                              Abs(alerts[k].timestamp - m.predictedTime) <= 1800
                IN /\ ~metrics[i].verified /\ m.verified =>
                        /\ m.patternId = id
                        /\ \E k \in DOMAIN alerts : alerts[k].timestamp = m.actualTime
                        /\ d <= 1800
                        /\ d <= 300 => m.accuracy = 1500
                        /\ d = 1800 => m.accuracy = 0
                        /\ d > 300 => m.accuracy = 1800 - d
                   /\ ~m.verified => m.actualTime = Null /\ m.accuracy = Null
                   /\ ~metrics[i].verified /\ ~near => ~m.verified
                   /\ ~metrics[i].verified /\ near /\ m.patternId = id => m.verified]_vars

\* a record verified exactly 30 minutes off with accuracy 0 and one verified
\* just over 5 minutes off with accuracy 1499/1500
AccuracyAtTheBoundaries ==
    /\ \E i \in DOMAIN metrics :
          /\ metrics[i].verified /\ metrics[i].accuracy = 0
          /\ metrics[i].actualTime = metrics[i].predictedTime - 1800
    /\ \E i \in DOMAIN metrics :
          /\ metrics[i].verified /\ metrics[i].accuracy = 1499
          /\ metrics[i].actualTime = metrics[i].predictedTime + 301

\* --------------------------------------- specification: malformed archive
\* Archive files appear, each a batch of one cluster (cpu and mem 60 s
\* apart) or a file that is not JSON, and the Miner reads the archive every
\* hour.
MalformedArchive ==
    /\ Cardinality(DOMAIN archive) < MaxMalformedFiles
    /\ \E id \in (1..MaxMalformedFiles) \ DOMAIN archive :
       \E file \in {MalformedFile,
                    [id |-> id,
                     alerts |-> <<Alert("cpu", 1, now, "warning"),
                                  Alert("mem", 1, now + 60, "warning")>>,
                     correlations |-> <<>>, timestamp |-> now, processed |-> FALSE]} :
          archive' = MapPut(archive, id, file)
    /\ UNCHANGED <<now, storeVars, patterns, patternsFile, nextAnalysis, batcherVars,
                   schedulerVars, auxVars>>

MalformedAnalyze ==
    /\ \E order \in Orders(DOMAIN archive), saved \in BOOLEAN :
          AnalyzeArchivedBatches(order, saved)
    /\ UNCHANGED <<now, storeVars, archive, batcherVars, schedulerVars, auxVars>>

MalformedTick ==
    /\ now < nextAnalysis
    /\ nextAnalysis <= MaxMalformedCycles * ANALYSIS_INTERVAL
    /\ now' = nextAnalysis
    /\ UNCHANGED <<storeVars, minerVars, batcherVars, schedulerVars, auxVars>>

InitMalformed ==
    /\ now = 0
    /\ InitNotifier
    /\ InitTracker
    /\ InitMiner
    /\ InitBatcher
    /\ InitScheduler
    /\ InitChannels
    /\ InitReport
    /\ InitLimiter
    /\ InitClient
    /\ InitServer
    /\ InitLoader

NextMalformed == MalformedArchive \/ MalformedAnalyze \/ MalformedTick

SpecMalformed == InitMalformed /\ [][NextMalformed]_vars

WellFormedIds == {id \in DOMAIN archive : JsonParses(archive[id])}

\* C14: a mining cycle that finds a malformed file among the archived ones
\* merges the clusters of all the others into the registry (and writes the
\* registry, unless the write fails).
MalformedFileSkipped ==
    [][nextAnalysis' # nextAnalysis /\ WellFormedIds # DOMAIN archive =>
         \E order \in Orders(WellFormedIds) :
            /\ patterns' = DetectPatterns(patterns,
                                          [i \in DOMAIN order |-> archive[order[i]]])
            /\ patternsFile' \in {patterns', patternsFile}]_vars

\* ------------------------------------------- specification: correlations
\* Alerts with timestamps of their own reach the first window, the window
\* timer fires, and the write of the batch ends, well or badly.
CorrelateTimes == {0, 1, 2, 32, 61, 122}
CorrelateAlerts ==
    {Alert(type, 1, t, severity) :
        type \in {"cpu", "memory"}, t \in CorrelateTimes, severity \in {"critical", "warning"}}

CorrelateAdd ==
    /\ now < BATCH_WINDOW
    /\ currentBatchId \in DOMAIN batches
    /\ Len(batches[currentBatchId].alerts) < MaxCorrelateAlerts
    /\ \E alert \in CorrelateAlerts : AddAlert(alert)
    /\ UNCHANGED <<now, storeVars, minerVars, schedulerVars, auxVars>>

CorrelateProcess ==
    /\ ProcessBatch
    /\ UNCHANGED <<now, storeVars, minerVars, schedulerVars, auxVars>>

CorrelateArchiveDone ==
    /\ \E w \in writes, ok \in BOOLEAN : ArchiveDone(w, ok)
    /\ UNCHANGED <<now, storeVars, patterns, patternsFile, nextAnalysis, schedulerVars, auxVars>>

CorrelateTick ==
    /\ now < BATCH_WINDOW
    /\ now' = BATCH_WINDOW
    /\ UNCHANGED <<storeVars, minerVars, batcherVars, schedulerVars, auxVars>>

NextCorrelate == CorrelateAdd \/ CorrelateProcess \/ CorrelateArchiveDone \/ CorrelateTick

SpecCorrelate == InitBatcherSpec /\ [][NextCorrelate]_vars

\* the batches whose window has closed: those being written and those written
ClosedBatches == {w.data : w \in writes} \cup {archive[id] : id \in DOMAIN archive}

\* the positions of the alerts of a batch that have another alert of the
\* batch at most 60 seconds away
WithNeighbour(alerts) ==
    {i \in DOMAIN alerts :
        \E j \in DOMAIN alerts \ {i} :
           Abs(alerts[j].timestamp - alerts[i].timestamp) <= 60}

\* C16: at window close an alert gets a correlation if and only if the batch
\* holds another alert at most 60 seconds from it; the correlations are those
\* of such alerts, one each, in the order of the alerts.  Two alerts of one
\* type 61 seconds apart, alone in a batch, get none; two 59 seconds apart
\* get one each.
CorrelatedIffNeighbour ==
    \A b \in ClosedBatches :
       /\ Len(b.correlations) = Cardinality(WithNeighbour(b.alerts))
       /\ \A i \in DOMAIN b.alerts :
             i \in WithNeighbour(b.alerts)
               <=> \E k \in DOMAIN b.correlations : b.correlations[k].primaryAlert = b.alerts[i]
       /\ \A k \in DOMAIN b.correlations :
             \E i \in WithNeighbour(b.alerts) : b.correlations[k].primaryAlert = b.alerts[i]
       /\ (/\ Len(b.alerts) = 2
           /\ b.alerts[1].type = b.alerts[2].type
           /\ Abs(b.alerts[1].timestamp - b.alerts[2].timestamp) = 61)
          => b.correlations = <<>>
       /\ (/\ Len(b.alerts) = 2
           /\ b.alerts[1].type = b.alerts[2].type
           /\ Abs(b.alerts[1].timestamp - b.alerts[2].timestamp) = 59)
          => /\ Len(b.correlations) = 2
             /\ b.correlations[1].primaryAlert = b.alerts[1]
             /\ b.correlations[2].primaryAlert = b.alerts[2]

\* a batch was archived with alerts at 2, 61 and 122 seconds: the first two,
\* 59 seconds apart, have a correlation each; the third, 61 seconds from
\* its nearest, has none
CorrelatedAtFiftyNine ==
    \E id \in DOMAIN archive :
       /\ Len(archive[id].alerts) = 3
       /\ archive[id].alerts[1].timestamp = 2
       /\ archive[id].alerts[2].timestamp = 61
       /\ archive[id].alerts[3].timestamp = 122
       /\ Len(archive[id].correlations) = 2
       /\ archive[id].correlations[1].primaryAlert = archive[id].alerts[1]
       /\ archive[id].correlations[2].primaryAlert = archive[id].alerts[2]

\* C17: for a batch of two alerts of one type 30 seconds apart, one critical
\* and one warning, the confidence of the correlations computed at window
\* close is above 0.5 (in millionths).
MixedSeverityConfident ==
    \A b \in ClosedBatches :
       (/\ Len(b.alerts) = 2
        /\ b.alerts[1].type = b.alerts[2].type
        /\ Abs(b.alerts[1].timestamp - b.alerts[2].timestamp) = 30
        /\ {b.alerts[1].severity, b.alerts[2].severity} = {"critical", "warning"})
       => /\ b.correlations # <<>>
          /\ \A k \in DOMAIN b.correlations : b.correlations[k].confidence > 500000

\* ----------------------------------------- specification: accuracy report
\* Predictions are recorded and verified, and getAccuracyMetrics is called
\* in between.
ReportRecord ==
    /\ Len(metrics) < MaxReportRecords
    /\ \E p \in TrackerPredictions : metrics' = RecordPrediction(metrics, p)
    /\ UNCHANGED <<now, alertHistory, recorded, minerVars, batcherVars, schedulerVars,
                   auxVars>>

ReportVerify ==
    /\ \E id \in TrackerIds, alerts \in TrackerAlertLists :
          metrics' = VerifyPrediction(metrics, id, alerts)
    /\ UNCHANGED <<now, alertHistory, recorded, minerVars, batcherVars, schedulerVars,
                   auxVars>>

ReportQuery ==
    /\ QueryAccuracyMetrics
    /\ UNCHANGED <<now, storeVars, minerVars, batcherVars, schedulerVars, channelVars,
                   limiterVars, clientVars, serverVars,
                   loaderVars>>

NextReport == ReportRecord \/ ReportVerify \/ ReportQuery

SpecReport == InitAccuracy /\ [][NextReport]_vars

\* C18: getAccuracyMetrics reports totalPredictions equal to the number of
\* records held and verifiedPredictions equal to the number of verified
\* records, whether or not any record is verified, and verifiedPredictions
\* is at most totalPredictions.
CountsReported ==
    [][ReportQuery =>
         /\ accuracyReport'[1].totalPredictions = Len(metrics)
         /\ accuracyReport'[1].verifiedPredictions
              = Cardinality({i \in DOMAIN metrics : metrics[i].verified})
         /\ accuracyReport'[1].verifiedPredictions
              <= accuracyReport'[1].totalPredictions]_vars

\* ------------------------------------------------ specification: forecast
\* The registry is as loadPatterns found it at startup: of three patterns,
\* each is absent, or seen once and without prediction, or seen three times
\* and expected next at one of three instants.  Time passes those instants
\* and getPatternPredictions is called in between.
ForecastTypes == {"cpu", "mem", "disk"}
ForecastExpected == {600, 900, 1200}

ForecastPattern(type, nextExpected) ==
    LET created == CreatePattern(<<Alert(type, 1, 0, "warning"), Alert(type, 1, 60, "warning")>>)
    IN IF nextExpected = Null THEN created
       ELSE [created EXCEPT
               !.occurrences = MIN_PATTERN_OCCURRENCES,
               !.prediction = <<[nextExpected |-> nextExpected,
                                 confidence |-> PredictionConfidence(MIN_PATTERN_OCCURRENCES)]>>]

ForecastRegistries ==
    {[id \in {ForecastPattern(type, Null).id : type \in present} |->
        ForecastPattern(id[2], next[id[2]])] :
       present \in SUBSET ForecastTypes,
       next \in [ForecastTypes -> ForecastExpected \cup {Null}]}

ForecastQuery ==
    /\ QueryPatternPredictions
    /\ UNCHANGED <<now, storeVars, minerVars, batcherVars, schedulerVars, channelVars,
                   limiterVars, clientVars, serverVars,
                   loaderVars>>

ForecastTick ==
    /\ now + CHECK_INTERVAL <= MaxForecastTime
    /\ now' = now + CHECK_INTERVAL
    /\ UNCHANGED <<storeVars, minerVars, batcherVars, schedulerVars, auxVars>>

InitForecast ==
    /\ now = 0
    /\ InitNotifier
    /\ InitTracker
    /\ archive = EmptyMap
    /\ patterns \in ForecastRegistries
    /\ patternsFile = patterns
    /\ nextAnalysis = ANALYSIS_INTERVAL
    /\ InitBatcher
    /\ InitScheduler
    /\ InitChannels
    /\ InitReport
    /\ InitLimiter
    /\ InitClient
    /\ InitServer
    /\ InitLoader

NextForecast == ForecastQuery \/ ForecastTick

SpecForecast == InitForecast /\ [][NextForecast]_vars

\* C19: getPatternPredictions returns exactly the patterns of the registry
\* that have a prediction with nextExpected strictly after now, each once,
\* as it is in the registry and with dueIn = nextExpected - now > 0, in
\* ascending order of dueIn.
FuturePredictionsAscending ==
    [][ForecastQuery =>
         LET preds == predictionsReport'[1] IN
         /\ {preds[i].id : i \in DOMAIN preds}
              = {id \in DOMAIN patterns :
                   /\ patterns[id].prediction # <<>>
                   /\ patterns[id].prediction[1].nextExpected > now}
         /\ \A i, j \in DOMAIN preds : preds[i].id = preds[j].id => i = j
         /\ \A i \in DOMAIN preds :
               /\ preds[i].dueIn = patterns[preds[i].id].prediction[1].nextExpected - now
               /\ preds[i].dueIn > 0
               /\ preds[i].pattern = patterns[preds[i].id].pattern
               /\ preds[i].occurrences = patterns[preds[i].id].occurrences
               /\ preds[i].lastSeen = patterns[preds[i].id].lastSeen
               /\ preds[i].prediction = patterns[preds[i].id].prediction
         /\ \A i, j \in DOMAIN preds : i < j => preds[i].dueIn <= preds[j].dueIn]_vars

\* at 600 s a query over a registry of three predictions, expected at 600,
\* 900 and 1200 s, has returned the last two, due in 300 and 600 s
TwoOfThreeReturned ==
    /\ now = 600
    /\ Cardinality(DOMAIN patterns) = 3
    /\ {patterns[id].prediction : id \in DOMAIN patterns}
         = {<<[nextExpected |-> t, confidence |-> PredictionConfidence(MIN_PATTERN_OCCURRENCES)]>> :
              t \in ForecastExpected}
    /\ predictionsReport # <<>>
    /\ Len(predictionsReport[1]) = 2
    /\ predictionsReport[1][1].dueIn = 300
    /\ predictionsReport[1][2].dueIn = 600

\* ----------------------------------------- specification: rate limiter
\* Clients at two addresses connect to the analytics namespace, send
\* events and disconnect, in any order, while time passes and the cleanup
\* timer fires.  A socket emits 'disconnect' once, after it was admitted.
WsAddresses == {"10.0.0.1", "10.0.0.2"}

LimiterConnect ==
    /\ lastHandshake.id < MaxHandshakes
    /\ \E ip \in WsAddresses : ApplyWsRateLimiting(lastHandshake.id + 1, ip)
    /\ UNCHANGED <<now, storeVars, minerVars, batcherVars, schedulerVars, channelVars,
                   reportVars, clientVars, serverVars,
                   loaderVars>>

LimiterDisconnect ==
    /\ \E s \in sockets : OnDisconnect(s)
    /\ UNCHANGED <<now, storeVars, minerVars, batcherVars, schedulerVars, channelVars,
                   reportVars, clientVars, serverVars,
                   loaderVars>>

LimiterEvent ==
    /\ \E s \in sockets, export \in BOOLEAN :
          /\ s.ip \in DOMAIN rateLimits => rateLimits[s.ip].count < MaxWsEvents
          /\ OnEvent(s, export)
    /\ UNCHANGED <<now, storeVars, minerVars, batcherVars, schedulerVars, channelVars,
                   reportVars, clientVars, serverVars,
                   loaderVars>>

LimiterSweep ==
    /\ LimiterCleanup
    /\ UNCHANGED <<now, storeVars, minerVars, batcherVars, schedulerVars, channelVars,
                   reportVars, clientVars, serverVars,
                   loaderVars>>

LimiterTick ==
    /\ now # nextWsCleanup
    /\ nextWsCleanup <= MaxLimiterTime
    /\ now' = nextWsCleanup
    /\ UNCHANGED <<storeVars, minerVars, batcherVars, schedulerVars, auxVars>>

NextLimiter ==
    \/ LimiterConnect \/ LimiterDisconnect \/ LimiterEvent \/ LimiterSweep \/ LimiterTick

SpecLimiter == InitAccuracy /\ [][NextLimiter]_vars

\* the admitted connections of an address that have not disconnected
LiveConnections(ip) == Cardinality({s \in sockets : s.ip = ip})

\* C20: for every client address the admitted connections not yet
\* disconnected are at most 5 and the counter of the address (0 when it has
\* none) is their number, never negative; and a connection attempt is
\* refused, changing nothing, exactly when 5 are counted for its address.
ConnectionsWithinLimit ==
    /\ [](\A ip \in WsAddresses :
            /\ LiveConnections(ip) <= 5
            /\ (IF ip \in DOMAIN connectionsPerIP THEN connectionsPerIP[ip] ELSE 0)
                 = LiveConnections(ip)
            /\ ip \in DOMAIN connectionsPerIP => connectionsPerIP[ip] >= 0)
    /\ [][lastHandshake'.id # lastHandshake.id =>
            /\ lastHandshake'.admitted <=> LiveConnections(lastHandshake'.ip) < 5
            /\ lastHandshake'.admitted =>
                  sockets' = sockets \cup {[id |-> lastHandshake'.id,
                                            ip |-> lastHandshake'.ip]}
            /\ ~lastHandshake'.admitted =>
                  /\ sockets' = sockets
                  /\ connectionsPerIP' = connectionsPerIP]_vars

\* the seventh attempt was refused: five connections of its address are
\* live, the last of them admitted after an earlier one had disconnected
SixthRefused ==
    /\ lastHandshake.id = 7
    /\ ~lastHandshake.admitted
    /\ LiveConnections(lastHandshake.ip) = 5
    /\ connectionsPerIP[lastHandshake.ip] = 5
    /\ [id |-> 6, ip |-> lastHandshake.ip] \in sockets

\* --------------------------------------------- specification: client
\* The user of an AnalyticsClient connects, subscribes, unsubscribes,
\* exports and disconnects in any order, while the sockets it has made
\* connect, fail to connect, drop, deliver errors and updates, and the
\* reconnection timer fires.  A closed socket emits nothing more.
ClientOptions == {[timeframe |-> "24h", interval |-> 5000]}

nonClientVars ==
    <<now, storeVars, minerVars, batcherVars, schedulerVars, channelVars, reportVars,
      limiterVars, serverVars, loaderVars>>

\* io() can make another socket
CanMakeSocket == SocketConnected(Client) \/ Len(ioSockets) < MaxClientSockets

\* the socket id changes state before its listener runs
WithSocket(id, state) == [Client EXCEPT !.ioSockets[id] = state]

ClientConnect ==
    /\ CanMakeSocket
    /\ Becomes(Connect(Client))
    /\ UNCHANGED nonClientVars

ClientDisconnect ==
    /\ Becomes(Disconnect(Client))
    /\ UNCHANGED nonClientVars

ClientSubscribe ==
    /\ \E options \in ClientOptions : Becomes(Subscribe(Client, options))
    /\ UNCHANGED nonClientVars

ClientUnsubscribe ==
    /\ Becomes(Unsubscribe(Client))
    /\ UNCHANGED nonClientVars

ClientExport ==
    /\ Becomes(ExportData(Client))
    /\ UNCHANGED nonClientVars

ClientTimer ==
    /\ retryTimeout # <<>>
    /\ CanMakeSocket
    /\ Becomes(ReconnectTimer(Client))
    /\ UNCHANGED nonClientVars

SocketConnects ==
    /\ \E id \in DOMAIN ioSockets :
          /\ ioSockets[id] = "connecting"
          /\ Becomes(OnConnect(WithSocket(id, "connected")))
    /\ UNCHANGED nonClientVars

SocketFails ==
    /\ \E id \in DOMAIN ioSockets :
          /\ ioSockets[id] = "connecting"
          /\ Becomes(OnConnectError(WithSocket(id, "closed")))
    /\ UNCHANGED nonClientVars

SocketDrops ==
    /\ \E id \in DOMAIN ioSockets :
          /\ ioSockets[id] = "connected"
          /\ Becomes([OnSocketDisconnect(WithSocket(id, "closed"))
                        EXCEPT !.dropped = @ \/ (id = socket /\ subscriptionOptions # <<>>)])
    /\ UNCHANGED nonClientVars

SocketErrors ==
    /\ Len(rateDelays) < MaxRateLimits
    /\ \E id \in DOMAIN ioSockets, rateLimit \in BOOLEAN :
          /\ ioSockets[id] = "connected"
          /\ Becomes(OnError(Client, rateLimit))
    /\ UNCHANGED nonClientVars

SocketUpdates ==
    /\ \E id \in DOMAIN ioSockets :
          /\ ioSockets[id] = "connected"
          /\ Becomes(OnAnalyticsUpdate(Client))
    /\ UNCHANGED nonClientVars

InitClientSpec ==
    /\ now = 0
    /\ InitNotifier
    /\ InitTracker
    /\ InitMiner
    /\ InitBatcher
    /\ InitScheduler
    /\ InitChannels
    /\ InitReport
    /\ InitLimiter
    /\ InitServer
    /\ InitLoader
    /\ socket = Null
    /\ ioSockets = <<>>
    /\ retryCount = 0
    /\ retryTimeout = <<>>
    /\ subscriptionOptions = <<>>
    /\ clientConfig \in [maxAttempts : {1, MaxAttempts}, autoReconnect : BOOLEAN,
                          listensError : BOOLEAN]
    /\ clientOut = <<>>
    /\ rateDelays = <<>>
    /\ attempts = 0
    /\ dropped = FALSE

NextClient ==
    \/ ClientConnect \/ ClientDisconnect \/ ClientSubscribe \/ ClientUnsubscribe
    \/ ClientExport \/ ClientTimer \/ SocketConnects \/ SocketFails \/ SocketDrops
    \/ SocketErrors \/ SocketUpdates

SpecClient == InitClientSpec /\ [][NextClient]_vars

\* the last operation emitted the event name
Emitted(name) ==
    \E i \in DOMAIN clientOut : clientOut[i].kind = "emit" /\ clientOut[i].name = name

\* C21: the attempt number of a 'reconnecting' event never exceeds
\* maxAttempts, and when a socket fails or drops after maxAttempts
\* reconnection attempts in a row without a 'connected', the client emits
\* 'reconnect_failed' and leaves no reconnection timer pending.
ReconnectGivesUp ==
    /\ [](/\ attempts <= clientConfig.maxAttempts
          /\ \A i \in DOMAIN clientOut :
                (clientOut[i].kind = "emit" /\ clientOut[i].name = "reconnecting")
                  => clientOut[i].data.attempt <= clientConfig.maxAttempts
          /\ attempts = clientConfig.maxAttempts => retryTimeout = <<>>)
    /\ [][((SocketFails \/ SocketDrops) /\ attempts = clientConfig.maxAttempts)
            => /\ Emitted("reconnect_failed")'
               /\ retryTimeout' = <<>>
               /\ Len(ioSockets') = Len(ioSockets)]_vars

\* the same of the clients whose user listens to 'error', which emit
\* every 'error' instead of throwing it
ReconnectGivesUpListening ==
    /\ [](/\ attempts <= clientConfig.maxAttempts
          /\ \A i \in DOMAIN clientOut :
                (clientOut[i].kind = "emit" /\ clientOut[i].name = "reconnecting")
                  => clientOut[i].data.attempt <= clientConfig.maxAttempts
          /\ attempts = clientConfig.maxAttempts => retryTimeout = <<>>)
    /\ [][(/\ SocketFails \/ SocketDrops
           /\ attempts = clientConfig.maxAttempts
           /\ clientConfig.listensError)
            => /\ Emitted("reconnect_failed")'
               /\ retryTimeout' = <<>>
               /\ Len(ioSockets') = Len(ioSockets)]_vars

\* C22: after disconnect() in any client state, socket is null, retryCount
\* is 0, no reconnection timer is pending and subscriptionOptions is null;
\* disconnect() does not throw, and a second one changes nothing.
DisconnectCleansUp ==
    [][ClientDisconnect
        => /\ socket' = Null
           /\ retryCount' = 0
           /\ retryTimeout' = <<>>
           /\ subscriptionOptions' = <<>>
           /\ ~Thrown(Client')
           /\ LET again == Disconnect(Client')
              IN  /\ ~Thrown(again)
                  /\ again.socket = socket'
                  /\ again.retryCount = retryCount'
                  /\ again.retryTimeout = retryTimeout'
                  /\ again.subscriptionOptions = subscriptionOptions'
                  /\ again.ioSockets = ioSockets']_vars

\* the last operation sent name with data over the client's socket
Sent(name, data) ==
    \E i \in DOMAIN clientOut :
        /\ clientOut[i].kind = "send"
        /\ clientOut[i].name = name
        /\ clientOut[i].data = data

\* C23: a subscription that was active when the connection dropped is kept
\* unchanged while the client is disconnected and reconnects, and the next
\* successful connect sends 'subscribe' again with the same options.
ResubscribesOnReconnect ==
    [][dropped
        => /\ subscriptionOptions # <<>>
           /\ ~(ClientSubscribe \/ ClientUnsubscribe \/ ClientDisconnect)
                => subscriptionOptions' = subscriptionOptions
           /\ SocketConnects => Sent("subscribe", subscriptionOptions[1])']_vars

\* the same of the connects after which the client's own socket is connected
ResubscribesOnOwnSocket ==
    [][dropped
        => /\ subscriptionOptions # <<>>
           /\ ~(ClientSubscribe \/ ClientUnsubscribe \/ ClientDisconnect \/ SocketErrors)
                => subscriptionOptions' = subscriptionOptions
           /\ (SocketConnects /\ SocketConnected(Client'))
                => Sent("subscribe", subscriptionOptions[1])']_vars

\* C24: the delays of successive 'rate_limited' events strictly increase
\* until they reach the cap, and none exceeds 30000 ms.
RateLimitBackoffGrows ==
    /\ \A i \in DOMAIN rateDelays : rateDelays[i] <= RATE_LIMIT_MAX_DELAY
    /\ \A i \in DOMAIN rateDelays :
          i > 1 => \/ rateDelays[i] > rateDelays[i - 1]
                   \/ rateDelays[i] = RATE_LIMIT_MAX_DELAY

\* ------------------------------------- specification: signaling server
\* Sockets connect, ask for a partner (again too, while waiting or paired),
\* end their chat and disconnect in any order; the profile lookups of
\* findPartnerFor and the timers of checkAutoPairing complete in between.
MaxServed == 4
InterestLists == {<<>>, <<"musica">>, <<"musica", "viajes">>}
DeviceIds == {"d1", "d2"}

nonServerVars ==
    <<now, storeVars, minerVars, batcherVars, schedulerVars, channelVars, reportVars,
      limiterVars, clientVars, loaderVars>>

ServerConnect ==
    /\ connections < MaxServerSockets
    /\ connections' = connections + 1
    /\ ServerBecomes([Server EXCEPT !.serverSockets = @ \cup {connections + 1}])
    /\ UNCHANGED <<nonServerVars, served>>

ServerFindPartner ==
    /\ served < MaxServed
    /\ served' = served + 1
    /\ \E socketId \in serverSockets, interests \in InterestLists, deviceId \in DeviceIds :
          ServerBecomes(OnFindPartner(Server, socketId, interests, deviceId))
    /\ UNCHANGED <<nonServerVars, connections>>

ServerPartnerFound ==
    /\ \E call \in pairing : ServerBecomes(PartnerFound(Server, call))
    /\ UNCHANGED <<nonServerVars, served, connections>>

ServerLookupFails ==
    /\ \E call \in pairing : ServerBecomes(PartnerLookupFails(Server, call))
    /\ UNCHANGED <<nonServerVars, served, connections>>

ServerEndChat ==
    /\ served < MaxServed
    /\ served' = served + 1
    /\ \E socketId \in serverSockets : ServerBecomes(OnEndChat(Server, socketId))
    /\ UNCHANGED <<nonServerVars, connections>>

ServerDisconnect ==
    /\ \E socketId \in serverSockets : ServerBecomes(OnServerDisconnect(Server, socketId))
    /\ UNCHANGED <<nonServerVars, served, connections>>

ServerAutoPairing ==
    /\ autoPairingTimers > 0
    /\ ServerBecomes(CheckAutoPairing([Server EXCEPT !.autoPairingTimers = @ - 1]))
    /\ UNCHANGED <<nonServerVars, served, connections>>

NextServer ==
    \/ ServerConnect \/ ServerFindPartner \/ ServerPartnerFound \/ ServerLookupFails
    \/ ServerEndChat \/ ServerDisconnect \/ ServerAutoPairing

SpecServer == InitAccuracy /\ [][NextServer]_vars

\* the sockets that have disconnected
Disconnected == (1 .. connections) \ serverSockets

\* id is in no waiting queue and in no entry of userPairs
Forgotten(id) ==
    /\ ~Includes(genericQueue, id)
    /\ \A interest \in Interests : ~Includes(interestQueues[interest], id)
    /\ userPairs[id] = NoId
    /\ \A other \in ServerIds : userPairs[other] # id

\* C25: when a socket disconnects, the partner it had is sent
\* partner_disconnected, and from then on the disconnected id is in no
\* interest queue, not in the generic queue and in no userPairs entry.
DisconnectedIsForgotten ==
    /\ [](\A id \in Disconnected : Forgotten(id))
    /\ [][ServerDisconnect
            => \A id \in serverSockets \ serverSockets' :
                  userPairs[id] # NoId
                    => \E i \in DOMAIN serverOut' :
                          /\ serverOut'[i].to = userPairs[id]
                          /\ serverOut'[i].name = "partner_disconnected"]_vars

\* ----------------------------------- specification: prediction scheduler
\* The registry is as loadPatterns found it at startup: of two patterns,
\* each is absent or carries a prediction, confident or not, expected at one
\* of the instants below.  The check timer fires every five minutes, also
\* while the deliveries of an earlier cycle are still awaited; in between
\* the Pattern Miner merges a new cluster of a pattern, which moves its
\* prediction.
MaxScheduleTime == 1200
MaxMerges == 2
MaxPending == 1
ScheduleTypes == {"cpu", "mem"}
ScheduleExpected == {400, 700, 1000}
ScheduleConfidences == {60, 70}

SchedulePattern(type, nextExpected, confidence) ==
    [ForecastPattern(type, nextExpected) EXCEPT !.prediction[1].confidence = confidence]

ScheduleRegistries ==
    {[id \in {ForecastPattern(type, Null).id : type \in present} |->
        SchedulePattern(id[2], next[id[2]], confidence[id[2]])] :
       present \in SUBSET ScheduleTypes,
       next \in [ScheduleTypes -> ScheduleExpected],
       confidence \in [ScheduleTypes -> ScheduleConfidences]}

ScheduleCheck ==
    /\ CheckPredictions
    /\ UNCHANGED <<now, recorded, minerVars, batcherVars, auxVars>>

ScheduleDelivered ==
    /\ \E c \in DOMAIN cycles : DeliveryDone(c)
    /\ UNCHANGED <<now, recorded, minerVars, batcherVars, auxVars>>

\* detectPatterns merges a cluster of the pattern that ends now
ScheduleMerge ==
    /\ now >= CHECK_INTERVAL
    /\ \E id \in DOMAIN patterns :
          /\ patterns[id].occurrences < MIN_PATTERN_OCCURRENCES + MaxMerges
          /\ patterns[id].lastSeen < now
          /\ patterns' = UpdatePattern(patterns,
                            CreatePattern(<<Alert(id[2], 1, now - 60, "warning"),
                                            Alert(id[2], 1, now, "warning")>>))
    /\ UNCHANGED <<now, storeVars, archive, patternsFile, nextAnalysis, batcherVars,
                   schedulerVars, auxVars>>

ScheduleTick ==
    /\ now # nextCheckAt
    /\ Len(cycles) <= MaxPending
    /\ nextCheckAt <= MaxScheduleTime
    /\ now' = nextCheckAt
    /\ UNCHANGED <<storeVars, minerVars, batcherVars, schedulerVars, auxVars>>

InitSchedule ==
    /\ now = 0
    /\ InitNotifier
    /\ InitTracker
    /\ archive = EmptyMap
    /\ patterns \in ScheduleRegistries
    /\ patternsFile = patterns
    /\ nextAnalysis = ANALYSIS_INTERVAL
    /\ InitBatcher
    /\ InitScheduler
    /\ InitChannels
    /\ InitReport
    /\ InitLimiter
    /\ InitClient
    /\ InitServer
    /\ InitLoader

NextSchedule == ScheduleCheck \/ ScheduleDelivered \/ ScheduleMerge \/ ScheduleTick

SpecSchedule == InitSchedule /\ [][NextSchedule]_vars

\* the checks of chk that a cycle begun at t0 with the predictions preds has
\* to notify: not visited yet, due, not notified, predicted and confident
DueChecks(chk, preds, t0, visited) ==
    {i \in DOMAIN chk :
        /\ chk[i].patternId \notin visited
        /\ t0 >= chk[i].nextCheck
        /\ ~chk[i].notified
        /\ \E k \in DOMAIN preds :
              /\ preds[k].id = chk[i].patternId
              /\ preds[k].prediction[1].confidence >= 70}

\* the step passes one synthetic alert to the Alert Store and records one
\* unverified prediction, both of a check of due, and awaits the delivery
NotifiesOneOf(chk, preds, due) ==
    /\ Len(alertHistory') = Len(alertHistory) + 1
    /\ alertHistory'[Len(alertHistory')].type = "predicted_alert_pattern"
    /\ alertHistory'[Len(alertHistory')].severity = "warning"
    /\ SubSeq(alertHistory', 1, Len(alertHistory)) = alertHistory
    /\ Len(metrics') = Len(metrics) + 1
    /\ SubSeq(metrics', 1, Len(metrics)) = metrics
    /\ LET record == metrics'[Len(metrics')] IN
       /\ ~record.verified
       /\ record.actualTime = Null
       /\ \E i \in due : \E k \in DOMAIN preds :
             /\ chk[i].patternId = record.patternId
             /\ preds[k].id = record.patternId
             /\ record.predictedTime = preds[k].prediction[1].nextExpected
       /\ Len(cycles') > 0
       /\ cycles'[Len(cycles')].awaiting = record.patternId

NotifiesNone == alertHistory' = alertHistory /\ metrics' = metrics

\* C26: in a check cycle every tracked check that is due, not notified and
\* of a prediction with confidence >= 0.7 causes exactly one synthetic alert
\* (predicted_alert_pattern, warning) to be passed to the Alert Store and
\* one new unverified accuracy record with predictedTime = nextExpected,
\* and becomes notified when the delivery has settled; the cycle goes on
\* to the next such check, and a check that is notified or not due causes
\* neither.
DueCheckNotifiedOnce ==
    [][/\ ScheduleCheck
          => \E preds \in GetPatternPredictions :
                LET due == DueChecks(checks, preds, now, {})
                IN IF due = {} THEN NotifiesNone
                   ELSE NotifiesOneOf(checks, preds, due)
       /\ \A c \in DOMAIN cycles :
             DeliveryDone(c)
               => LET cyc == cycles[c]
                      settled == IF cyc.detached THEN checks
                                 ELSE [i \in DOMAIN checks |->
                                         IF checks[i].patternId = cyc.awaiting
                                         THEN [checks[i] EXCEPT !.notified = TRUE]
                                         ELSE checks[i]]
                      due == DueChecks(settled, cyc.preds, cyc.t0, cyc.visited)
                  IN /\ ~cyc.detached
                        => \A i \in DOMAIN checks' :
                              checks'[i].patternId = cyc.awaiting => checks'[i].notified
                     /\ IF due = {} THEN NotifiesNone
                        ELSE NotifiesOneOf(settled, cyc.preds, due)]_vars

\* a check of a prediction with confidence 0.7 is notified, its alert is in
\* the history and its record in the Accuracy Tracker
ConfidentCheckNotified ==
    \E i \in DOMAIN checks :
       /\ checks[i].notified
       /\ checks[i].patternId \in DOMAIN patterns
       /\ patterns[checks[i].patternId].prediction[1].confidence = 70
       /\ \E m \in DOMAIN metrics :
             /\ metrics[m].patternId = checks[i].patternId
             /\ metrics[m].predictedTime = patterns[checks[i].patternId].prediction[1].nextExpected
       /\ \E k \in DOMAIN alertHistory : alertHistory[k].type = PREDICTED

\* the prediction of the pattern has no accuracy record: no synthetic alert
\* has been emitted for it
Unannounced(id) ==
    /\ id \in DOMAIN patterns
    /\ patterns[id].prediction # <<>>
    /\ \A m \in DOMAIN metrics :
          ~(/\ metrics[m].patternId = id
            /\ metrics[m].predictedTime = patterns[id].prediction[1].nextExpected)

\* the check is notified and due, and the cycle that begins gets a
\* prediction of its pattern that has moved since the notification
NotifiedAndAdvanced(i) ==
    /\ checks[i].notified
    /\ checks[i].patternId \in FutureIds
    /\ Unannounced(checks[i].patternId)
    /\ now >= checks[i].nextCheck

\* C27: once a check is notified and the pattern's prediction has advanced
\* to a new future nextExpected, with the pattern among the predictions of
\* the cycle, a later cycle in which the check is due recomputes its
\* nextCheck from the current dueIn, and the last cycle before the advanced
\* prediction passes has emitted a synthetic alert for it.
AdvancedPredictionNotified ==
    [][ScheduleCheck
        => \A i \in DOMAIN checks :
              NotifiedAndAdvanced(i)
                => LET id == checks[i].patternId
                       nextExpected == patterns[id].prediction[1].nextExpected
                   IN /\ \E j \in DOMAIN checks' :
                            /\ checks'[j].patternId = id
                            /\ checks'[j].nextCheck = CalculateNextCheck(nextExpected - now)
                      /\ nextExpected - now <= CHECK_INTERVAL
                            => \E m \in DOMAIN metrics' :
                                  /\ metrics'[m].patternId = id
                                  /\ metrics'[m].predictedTime = nextExpected]_vars

\* C28: every pattern of confidence >= 0.7 that a check cycle has got from
\* getPatternPredictions, and so has a check, has had a synthetic alert
\* emitted for its prediction by the time nextExpected has passed, whatever
\* its dueIn was when the check was created.  (The patterns looked at are
\* those no merge has touched: their prediction is the one the cycle got.)
AlertBeforeExpected ==
    \A i \in DOMAIN checks :
       LET id == checks[i].patternId IN
       (/\ id \in DOMAIN patterns
        /\ patterns[id] = patternsFile[id]
        /\ patterns[id].prediction[1].confidence >= 70
        /\ patterns[id].prediction[1].nextExpected <= now)
         => ~Unannounced(id)

\* the check state of the pattern has produced its synthetic alert: it is
\* notified, or a cycle awaits the delivery of its alert
AlreadyAlerted(id) ==
    \/ \E i \in DOMAIN checks : checks[i].patternId = id /\ checks[i].notified
    \/ \E c \in DOMAIN cycles : cycles[c].awaiting = id /\ ~cycles[c].detached

\* C29: between its creation and its removal a check state produces at most
\* one synthetic alert and at most one accuracy record, also when a check
\* cycle begins while an earlier one still awaits the delivery of an alert.
OneAlertPerCheckState ==
    [][(ScheduleCheck \/ ScheduleDelivered)
        => /\ Len(metrics') <= Len(metrics) + 1
           /\ Len(alertHistory') <= Len(alertHistory) + 1
           /\ Len(metrics') > Len(metrics)
                => ~AlreadyAlerted(metrics'[Len(metrics')].patternId)
           /\ Len(alertHistory') > Len(alertHistory)
                => /\ Len(metrics') > Len(metrics)
                   /\ ~AlreadyAlerted(metrics'[Len(metrics')].patternId)]_vars

\* C30: every alert that addAlert has appended to a batch is in the
\* archived copy of that batch: a batch that has been archived holds no
\* alert in memory that its archive file lacks.
AcceptedAlertsArchived ==
    \A id \in DOMAIN archive \cap DOMAIN batches :
       /\ Len(batches[id].alerts) = Len(archive[id].alerts)
       /\ \A k \in DOMAIN batches[id].alerts :
             batches[id].alerts[k] = archive[id].alerts[k]

\* -------------------------------------------------- properties: registry
\* C31: a pattern's lastSeen never decreases across the merges of a mining
\* cycle, whatever the order in which the archived batches are processed.
LastSeenNeverDecreases ==
    [][\A pid \in DOMAIN patterns \cap DOMAIN patterns' :
          patterns'[pid].lastSeen >= patterns[pid].lastSeen]_vars

\* the set of the alert types of a registered pattern
TypeSet(p) == {p.pattern.alertTypes[i] : i \in DOMAIN p.pattern.alertTypes}

\* C33: two clusters with the same set of alert types and the same timeWindow
\* get the same pattern id, whatever the order of the types inside the
\* cluster: the registry never holds two entries with the same set of types
\* and the same timeWindow.
SameTypesOneEntry ==
    \A p, q \in DOMAIN patterns :
       (/\ TypeSet(patterns[p]) = TypeSet(patterns[q])
        /\ patterns[p].pattern.timeWindow = patterns[q].pattern.timeWindow)
       => p = q

\* ------------------------------------------ specification: registry sweep
\* The process starts a little over thirty days after the oldest pattern of
\* the registry file was last seen.  loadPatterns finds a registry of up to
\* two patterns, each of 1 to 3 occurrences and last seen long ago, exactly
\* thirty days before the first cycle, or at startup; the Batcher writes
\* batch files, and the analysis timer fires every hour.
MaxRegistryCycles == 2
MaxRegistryArchived == 2
RegistryStart == THIRTY_DAYS + ANALYSIS_INTERVAL
RegistrySeen == {0, 2 * ANALYSIS_INTERVAL, RegistryStart}
RegistryShapes ==
    { << <<"cpu", 0, "warning">>, <<"mem", 60, "warning">> >>,
      << <<"mem", 0, "warning">>, <<"cpu", 60, "warning">> >> }

\* a pattern as createPattern and updatePattern leave it after `occurrences`
\* clusters of the shape, the last of them ending at lastSeen
RegistryPattern(shape, occurrences, lastSeen) ==
    [CreatePattern(ShapeAlerts(shape, lastSeen - 60)) EXCEPT
       !.occurrences = occurrences,
       !.prediction = IF ReachedMinOccurrences(occurrences)
                      THEN <<[nextExpected |-> lastSeen,
                              confidence |-> PredictionConfidence(occurrences)]>>
                      ELSE <<>>]

RegistryFiles ==
    {[id \in {RegistryPattern(shape, 1, 60).id : shape \in present} |->
        LET shape == CHOOSE sh \in present : RegistryPattern(sh, 1, 60).id = id
        IN RegistryPattern(shape, occurrences[shape], lastSeen[shape])] :
       present \in SUBSET RegistryShapes,
       occurrences \in [RegistryShapes -> 1..MIN_PATTERN_OCCURRENCES],
       lastSeen \in [RegistryShapes -> RegistrySeen]}

RegistryArchive ==
    /\ Cardinality(DOMAIN archive) < MaxRegistryArchived
    /\ now \notin DOMAIN archive
    /\ \E shape \in RegistryShapes :
          archive' = [id \in DOMAIN archive \cup {now} |->
                        IF id = now
                        THEN [id |-> now, alerts |-> ShapeAlerts(shape, now - BATCH_WINDOW),
                              correlations |-> <<>>, timestamp |-> now,
                              processed |-> FALSE]
                        ELSE archive[id]]
    /\ UNCHANGED <<now, storeVars, patterns, patternsFile, nextAnalysis, batcherVars,
                   schedulerVars, auxVars>>

RegistryAnalyze ==
    /\ \E order \in Orders(DOMAIN archive), saved \in BOOLEAN :
          AnalyzeArchivedBatches(order, saved)
    /\ UNCHANGED <<now, storeVars, archive, batcherVars, schedulerVars, auxVars>>

RegistryTick ==
    /\ now < nextAnalysis
    /\ nextAnalysis <= RegistryStart + MaxRegistryCycles * ANALYSIS_INTERVAL
    /\ now' = nextAnalysis
    /\ UNCHANGED <<storeVars, minerVars, batcherVars, schedulerVars, auxVars>>

InitRegistry ==
    /\ now = RegistryStart
    /\ InitNotifier
    /\ InitTracker
    /\ archive = EmptyMap
    /\ patterns \in RegistryFiles
    /\ patternsFile = patterns
    /\ nextAnalysis = RegistryStart + ANALYSIS_INTERVAL
    /\ InitBatcher
    /\ InitScheduler
    /\ InitChannels
    /\ InitReport
    /\ InitLimiter
    /\ InitClient
    /\ InitServer
    /\ InitLoader

NextRegistry == RegistryArchive \/ RegistryAnalyze \/ RegistryTick

SpecRegistry == InitRegistry /\ [][NextRegistry]_vars

\* C32: a merge that leaves a pattern with occurrences >= 3 leaves it a
\* prediction whose nextExpected is strictly later than the new lastSeen
\* whenever the new lastSeen is later than the previous one, also on the
\* merge that first reaches 3 occurrences (checked on the cycles that merge
\* exactly one cluster of the pattern).
NextExpectedAfterLastSeen ==
    [][\A pid \in DOMAIN patterns \cap DOMAIN patterns' :
          (/\ patterns'[pid].occurrences = patterns[pid].occurrences + 1
           /\ patterns'[pid].occurrences >= MIN_PATTERN_OCCURRENCES
           /\ patterns'[pid].lastSeen > patterns[pid].lastSeen)
          => /\ patterns'[pid].prediction # <<>>
             /\ patterns'[pid].prediction[1].nextExpected > patterns'[pid].lastSeen]_vars

\* the pattern ids of the clusters in the archived batches
ArchivedIds ==
    UNION {{CreatePattern(g).id :
              g \in {GroupAlertsByTimeWindow(archive[b].alerts)[k] :
                        k \in DOMAIN GroupAlertsByTimeWindow(archive[b].alerts)}} :
           b \in DOMAIN archive}

\* older than thirty days at the time of the sweep, and seen fewer than 3 times
OldAndRare(p) ==
    /\ now - p.lastSeen > THIRTY_DAYS
    /\ p.occurrences < MIN_PATTERN_OCCURRENCES

\* C37: the sweep at the end of a mining cycle deletes exactly the patterns
\* with now - lastSeen > 30 days and occurrences < 3: a pattern the cycle has
\* not merged is deleted if and only if it is both, and is otherwise left as
\* it was; no pattern of 3 or more occurrences and no pattern last seen
\* within 30 days is deleted; and none that is both remains.
SweepDeletesOldAndRare ==
    [][nextAnalysis' # nextAnalysis =>
         /\ \A pid \in DOMAIN patterns \ ArchivedIds :
               /\ pid \in DOMAIN patterns' <=> ~OldAndRare(patterns[pid])
               /\ pid \in DOMAIN patterns' => patterns'[pid] = patterns[pid]
         /\ \A pid \in DOMAIN patterns :
               (\/ patterns[pid].occurrences >= MIN_PATTERN_OCCURRENCES
                \/ now - patterns[pid].lastSeen <= THIRTY_DAYS)
               => pid \in DOMAIN patterns'
         /\ \A pid \in DOMAIN patterns' : ~OldAndRare(patterns'[pid])]_vars

\* a cycle has run whose registry write failed, so that the registry file
\* still shows what the cycle started from: the sweep has deleted a pattern
\* seen twice and older than 30 days, and has kept one as old seen 3 times
\* and one seen once exactly 30 days before
SweptOldAndRare ==
    /\ nextAnalysis > RegistryStart + ANALYSIS_INTERVAL
    /\ \E pid \in DOMAIN patternsFile \ DOMAIN patterns :
          OldAndRare(patternsFile[pid])
    /\ \E pid \in DOMAIN patterns \cap DOMAIN patternsFile :
          /\ patterns[pid] = patternsFile[pid]
          /\ \/ /\ patterns[pid].occurrences >= MIN_PATTERN_OCCURRENCES
                /\ now - patterns[pid].lastSeen > THIRTY_DAYS
             \/ /\ patterns[pid].occurrences < MIN_PATTERN_OCCURRENCES
                /\ now - patterns[pid].lastSeen = THIRTY_DAYS

\* -------------------------------------------------- properties: check states
\* a call of checkPredictions returns in this step (its cleanupChecks has run)
CycleReturns ==
    \/ Len(cycles') < Len(cycles)
    \/ nextCheckAt' # nextCheckAt /\ Len(cycles') = Len(cycles)

\* C35: after every check cycle each tracked check state belongs to a pattern
\* that is still among the registry's current predictions, the state of a
\* pattern no longer returned having been removed in that cycle, and there
\* is at most one state per pattern id.
ChecksOnlyOfPredicted ==
    [][CycleReturns =>
         /\ \A i \in DOMAIN checks' : checks'[i].patternId \in FutureIds
         /\ \A i, j \in DOMAIN checks' :
               checks'[i].patternId = checks'[j].patternId => i = j]_vars

\* ------------------------------------------ specification: check tracking
\* The registry is as loadPatterns found it: of three patterns, each is
\* absent or carries a prediction, confident or not, that at the first check
\* cycle is due in exactly one hour, a second more, exactly a day, or a
\* second more.  The check timer fires every five minutes.
MaxTrackTime == 900
TrackExpected ==
    {CHECK_INTERVAL + ONE_HOUR, CHECK_INTERVAL + ONE_HOUR + 1,
     CHECK_INTERVAL + ONE_DAY, CHECK_INTERVAL + ONE_DAY + 1}

TrackRegistries ==
    {[id \in {ForecastPattern(type, Null).id : type \in present} |->
        SchedulePattern(id[2], next[id[2]], confidence[id[2]])] :
       present \in SUBSET ForecastTypes,
       next \in [ForecastTypes -> TrackExpected],
       confidence \in [ForecastTypes -> ScheduleConfidences]}

TrackTick ==
    /\ now # nextCheckAt
    /\ Len(cycles) <= MaxPending
    /\ nextCheckAt <= MaxTrackTime
    /\ now' = nextCheckAt
    /\ UNCHANGED <<storeVars, minerVars, batcherVars, schedulerVars, auxVars>>

InitTrack ==
    /\ now = 0
    /\ InitNotifier
    /\ InitTracker
    /\ archive = EmptyMap
    /\ patterns \in TrackRegistries
    /\ patternsFile = patterns
    /\ nextAnalysis = ANALYSIS_INTERVAL
    /\ InitBatcher
    /\ InitScheduler
    /\ InitChannels
    /\ InitReport
    /\ InitLimiter
    /\ InitClient
    /\ InitServer
    /\ InitLoader

NextTrack == ScheduleCheck \/ ScheduleDelivered \/ TrackTick

SpecTrack == InitTrack /\ [][NextTrack]_vars

\* the entries of chk for pattern id
ChecksOf(chk, id) == {i \in DOMAIN chk : chk[i].patternId = id}

\* now+5min if dueIn <= 1h, now+1h if 1h < dueIn <= 24h, now+6h otherwise
NextCheckFor(dueIn) ==
    IF dueIn <= 3600 THEN now + 300
    ELSE IF dueIn <= 86400 THEN now + 3600
    ELSE now + 21600

\* C34: a check cycle creates, for every prediction returned that is not yet
\* tracked, one check state with notified = false and nextCheckAt = now+5min
\* if dueIn <= 1h, now+1h if 1h < dueIn <= 24h, and now+6h otherwise; the
\* state of a pattern already tracked is not recreated: it stays as it was
\* unless it is due and not notified, and then keeps notified = false.
NewPredictionsTracked ==
    [][nextCheckAt' # nextCheckAt =>
         \A id \in FutureIds :
            LET dueIn == patterns[id].prediction[1].nextExpected - now IN
            /\ Cardinality(ChecksOf(checks', id)) = 1
            /\ \A j \in ChecksOf(checks', id) :
                  IF ChecksOf(checks, id) = {}
                  THEN /\ ~checks'[j].notified
                       /\ checks'[j].nextCheck = NextCheckFor(dueIn)
                  ELSE \A i \in ChecksOf(checks, id) :
                          /\ checks'[j].notified = checks[i].notified
                          /\ (checks[i].notified \/ now < checks[i].nextCheck)
                                => checks'[j] = checks[i]
                          /\ checks'[j].nextCheck \in
                                {checks[i].nextCheck, NextCheckFor(dueIn)}]_vars

\* the first cycle has tracked three predictions: one due in exactly an hour
\* to be checked in 5 minutes, one due in exactly a day to be checked in an
\* hour, and one due a second later to be checked in six hours
TrackedAtEachDistance ==
    /\ now = CHECK_INTERVAL
    /\ nextCheckAt = 2 * CHECK_INTERVAL
    /\ Len(checks) = 3
    /\ \E i, j, k \in DOMAIN checks :
          /\ patterns[checks[i].patternId].prediction[1].nextExpected = now + 3600
          /\ checks[i].nextCheck = now + 300
          /\ patterns[checks[j].patternId].prediction[1].nextExpected = now + 86400
          /\ checks[j].nextCheck = now + 3600
          /\ patterns[checks[k].patternId].prediction[1].nextExpected = now + 86401
          /\ checks[k].nextCheck = now + 21600
          /\ ~checks[i].notified /\ ~checks[j].notified /\ ~checks[k].notified

\* C36: the cleanup sweep archives and evicts exactly the in-memory batches
\* that are older than 24 hours and were never processed: a batch leaves the
\* memory in a step of the sweep only if it is both, and a batch the sweep
\* serialises for its archive write is both.
SweepEvictsUnprocessedOnly ==
    [][/\ \A id \in DOMAIN batches \ DOMAIN batches' :
             /\ now - batches[id].timestamp > CLEANUP_INTERVAL
             /\ ~batches[id].processed
       /\ \A k \in DOMAIN sweep' :
             /\ now - sweep'[k].data.timestamp > CLEANUP_INTERVAL
             /\ ~sweep'[k].data.processed]_vars

\* -------------------------------------------- properties: accuracy records
\* C38: in every tracker state a record is verified if and only if both its
\* actualTime and its accuracy are non-null, and every verified record has
\* 0 <= accuracy <= 1 (1500 units) and |actualTime - predictedTime| <= 30
\* minutes.
VerifiedIffComplete ==
    \A i \in DOMAIN metrics :
       /\ metrics[i].verified
             <=> (metrics[i].actualTime # Null /\ metrics[i].accuracy # Null)
       /\ metrics[i].verified =>
             /\ metrics[i].accuracy >= 0
             /\ metrics[i].accuracy <= TIME_TOLERANCE - FIVE_MINUTES
             /\ Abs(metrics[i].actualTime - metrics[i].predictedTime) <= TIME_TOLERANCE

\* a record verified by an alert exactly 30 minutes early, with accuracy 0,
\* next to a record that a verification has left unverified
VerifiedAtTheEdge ==
    \E i, j \in DOMAIN metrics :
       /\ metrics[i].verified
       /\ metrics[i].actualTime = metrics[i].predictedTime - TIME_TOLERANCE
       /\ metrics[i].accuracy = 0
       /\ ~metrics[j].verified
       /\ metrics[j].actualTime = Null /\ metrics[j].accuracy = Null

\* ----------------------------------------------- properties: pairing state
\* socket id waits in an interest queue or in the generic queue
Waiting(id) ==
    \/ Includes(genericQueue, id)
    \/ \E interest \in Interests : Includes(interestQueues[interest], id)

\* C39: after any sequence of find_partner, end_chat and disconnect events
\* userPairs is symmetric, no user is paired with itself, and no paired user
\* remains in a waiting queue.
PairsSymmetric ==
    \A a \in ServerIds :
       userPairs[a] # NoId =>
          /\ userPairs[a] # a
          /\ userPairs[userPairs[a]] = a
          /\ ~Waiting(a)

\* ------------------------------------------ specification: tracker startup
\* The accuracy file is absent, is not JSON, or holds the records an earlier
\* run saved: none, or one verified record.  Predictions are recorded and
\* verified from the moment the constructor has returned, and the pending
\* read of the file ends at some point in between.
MaxLoadRecords == 2
LoadFiles ==
    {<<>>, <<MalformedFile>>, <<[data |-> <<>>]>>} \cup
    {<<[data |-> VerifyPrediction(RecordPrediction(<<>>, p), p.id,
                                  <<Alert("cpu", 1, TrackerTime, "warning")>>)]>> :
        p \in TrackerPredictions}

LoadRecord ==
    /\ Len(metrics) < MaxLoadRecords
    /\ \E p \in TrackerPredictions : metrics' = RecordPrediction(metrics, p)
    /\ UNCHANGED <<now, alertHistory, recorded, minerVars, batcherVars, schedulerVars,
                   channelVars, reportVars, limiterVars, clientVars, serverVars,
                   loaderVars>>

LoadVerify ==
    /\ \E id \in TrackerIds, alerts \in {<<a>> : a \in TrackerAlerts} :
          metrics' = VerifyPrediction(metrics, id, alerts)
    /\ UNCHANGED <<now, alertHistory, recorded, minerVars, batcherVars, schedulerVars,
                   channelVars, reportVars, limiterVars, clientVars, serverVars,
                   loaderVars>>

LoadDone ==
    /\ metricsLoad = "reading"
    /\ metricsLoad' = "done"
    /\ metrics' = LoadMetricsDone(metrics, metricsFile[1])
    /\ UNCHANGED <<now, alertHistory, recorded, minerVars, batcherVars, schedulerVars,
                   channelVars, reportVars, limiterVars, clientVars, serverVars,
                   metricsFile>>

InitLoad ==
    /\ now = 0
    /\ InitNotifier
    /\ InitTracker
    /\ InitMiner
    /\ InitBatcher
    /\ InitScheduler
    /\ InitChannels
    /\ InitReport
    /\ InitLimiter
    /\ InitClient
    /\ InitServer
    /\ metricsFile \in LoadFiles
    /\ metricsLoad = LoadMetrics(metricsFile)

NextLoad == LoadRecord \/ LoadVerify \/ LoadDone

SpecLoad == InitLoad /\ [][NextLoad]_vars

\* C40: a prediction recorded before the startup load of the persisted
\* accuracy records completes is still in the tracker's record list after
\* the load completes.
RecordedSurvivesLoad ==
    [][(metricsLoad = "reading" /\ metricsLoad' = "done") =>
         \A i \in DOMAIN metrics : \E j \in DOMAIN metrics' : metrics'[j] = metrics[i]]_vars

====
